---- MODULE Spec2Model ----
(***************************************************************************)
(* BlockJam puzzle core: the play-session state machine of GameEngine.ts   *)
(* (handlePiecePlacement over GridLogic.ts, ScoreCalculator.ts and the     *)
(* piece catalog of BlockTypes.ts) and the level codec of                  *)
(* LevelSerializer.ts (serializeLevel, generateChecksum, verifyChecksum).  *)
(*                                                                         *)
(* Rows and columns are 0-based as in the source; a grid is a sequence of  *)
(* rows, so cell (r, c) is grid[r + 1][c + 1].                             *)
(***************************************************************************)
EXTENDS Integers, Sequences, FiniteSets, TLC

VARIABLES state, last, move, codec, probe, store, db, requests, clock

vars == <<state, last, move, codec, probe, store, db, requests, clock>>

(***************************************************************************)
(* Basic values.                                                           *)
(***************************************************************************)

\* null of a CellValue
Null == "null"

\* the board dimension of a session (GridSize = 6 | 8 | 10)
GridSize == 6

BLOCK_COLORS == <<"red", "blue", "green", "yellow", "purple", "orange", "cyan", "pink">>

MAX_COMBO == 5

POINTS_PER_CELL == 10

Max(a, b) == IF a >= b THEN a ELSE b

Min(a, b) == IF a <= b THEN a ELSE b

(***************************************************************************)
(* BlockTypes.ts: the shape matrices and the catalog.                      *)
(***************************************************************************)

SHAPE_1x1 == << <<TRUE>> >>

SHAPE_1x2 == << <<TRUE, TRUE>> >>

SHAPE_1x3 == << <<TRUE, TRUE, TRUE>> >>

SHAPE_1x4 == << <<TRUE, TRUE, TRUE, TRUE>> >>

SHAPE_1x5 == << <<TRUE, TRUE, TRUE, TRUE, TRUE>> >>

SHAPE_2x1 == << <<TRUE>>, <<TRUE>> >>

SHAPE_3x1 == << <<TRUE>>, <<TRUE>>, <<TRUE>> >>

SHAPE_4x1 == << <<TRUE>>, <<TRUE>>, <<TRUE>>, <<TRUE>> >>

SHAPE_5x1 == << <<TRUE>>, <<TRUE>>, <<TRUE>>, <<TRUE>>, <<TRUE>> >>

SHAPE_2x2 == << <<TRUE, TRUE>>, <<TRUE, TRUE>> >>

SHAPE_3x3 == << <<TRUE, TRUE, TRUE>>, <<TRUE, TRUE, TRUE>>, <<TRUE, TRUE, TRUE>> >>

SHAPE_L_UP_RIGHT == << <<TRUE, FALSE>>, <<TRUE, FALSE>>, <<TRUE, TRUE>> >>

SHAPE_L_UP_LEFT == << <<FALSE, TRUE>>, <<FALSE, TRUE>>, <<TRUE, TRUE>> >>

SHAPE_L_DOWN_RIGHT == << <<TRUE, TRUE>>, <<TRUE, FALSE>>, <<TRUE, FALSE>> >>

SHAPE_L_DOWN_LEFT == << <<TRUE, TRUE>>, <<FALSE, TRUE>>, <<FALSE, TRUE>> >>

SHAPE_T_UP == << <<TRUE, TRUE, TRUE>>, <<FALSE, TRUE, FALSE>> >>

SHAPE_T_DOWN == << <<FALSE, TRUE, FALSE>>, <<TRUE, TRUE, TRUE>> >>

SHAPE_T_LEFT == << <<TRUE, FALSE>>, <<TRUE, TRUE>>, <<TRUE, FALSE>> >>

SHAPE_T_RIGHT == << <<FALSE, TRUE>>, <<TRUE, TRUE>>, <<FALSE, TRUE>> >>

SHAPE_Z_HORIZONTAL == << <<TRUE, TRUE, FALSE>>, <<FALSE, TRUE, TRUE>> >>

SHAPE_Z_VERTICAL == << <<FALSE, TRUE>>, <<TRUE, TRUE>>, <<TRUE, FALSE>> >>

SHAPE_S_HORIZONTAL == << <<FALSE, TRUE, TRUE>>, <<TRUE, TRUE, FALSE>> >>

SHAPE_S_VERTICAL == << <<TRUE, FALSE>>, <<TRUE, TRUE>>, <<FALSE, TRUE>> >>

\* the catalog, in the order of the source
PIECE_DEFINITIONS ==
    <<
       [id |-> "dot", shape |-> SHAPE_1x1, rarityWeight |-> 10],
       [id |-> "h2", shape |-> SHAPE_1x2, rarityWeight |-> 9],
       [id |-> "h3", shape |-> SHAPE_1x3, rarityWeight |-> 8],
       [id |-> "h4", shape |-> SHAPE_1x4, rarityWeight |-> 5],
       [id |-> "h5", shape |-> SHAPE_1x5, rarityWeight |-> 3],
       [id |-> "v2", shape |-> SHAPE_2x1, rarityWeight |-> 9],
       [id |-> "v3", shape |-> SHAPE_3x1, rarityWeight |-> 8],
       [id |-> "v4", shape |-> SHAPE_4x1, rarityWeight |-> 5],
       [id |-> "v5", shape |-> SHAPE_5x1, rarityWeight |-> 3],
       [id |-> "sq2", shape |-> SHAPE_2x2, rarityWeight |-> 7],
       [id |-> "sq3", shape |-> SHAPE_3x3, rarityWeight |-> 2],
       [id |-> "l_ur", shape |-> SHAPE_L_UP_RIGHT, rarityWeight |-> 6],
       [id |-> "l_ul", shape |-> SHAPE_L_UP_LEFT, rarityWeight |-> 6],
       [id |-> "l_dr", shape |-> SHAPE_L_DOWN_RIGHT, rarityWeight |-> 6],
       [id |-> "l_dl", shape |-> SHAPE_L_DOWN_LEFT, rarityWeight |-> 6],
       [id |-> "t_up", shape |-> SHAPE_T_UP, rarityWeight |-> 5],
       [id |-> "t_down", shape |-> SHAPE_T_DOWN, rarityWeight |-> 5],
       [id |-> "t_left", shape |-> SHAPE_T_LEFT, rarityWeight |-> 5],
       [id |-> "t_right", shape |-> SHAPE_T_RIGHT, rarityWeight |-> 5],
       [id |-> "z_h", shape |-> SHAPE_Z_HORIZONTAL, rarityWeight |-> 4],
       [id |-> "z_v", shape |-> SHAPE_Z_VERTICAL, rarityWeight |-> 4],
       [id |-> "s_h", shape |-> SHAPE_S_HORIZONTAL, rarityWeight |-> 4],
       [id |-> "s_v", shape |-> SHAPE_S_VERTICAL, rarityWeight |-> 4]
    >>

\* the shape of each catalog entry, by id
ShapeById ==
    [id \in {PIECE_DEFINITIONS[i].id : i \in 1..Len(PIECE_DEFINITIONS)} |->
        (CHOOSE d \in {PIECE_DEFINITIONS[i] : i \in 1..Len(PIECE_DEFINITIONS)} : d.id = id).shape]

\* piece.definition.shape of a runtime piece
ShapeOf(piece) == ShapeById[piece.definition]

RECURSIVE SumWeights(_)
SumWeights(n) == IF n = 0 THEN 0 ELSE SumWeights(n - 1) + PIECE_DEFINITIONS[n].rarityWeight

\* the weighted selection loop of getRandomPieces: the first definition at
\* which the roll, reduced by the weights so far, is no longer positive
RECURSIVE ChooseByRoll(_, _)
ChooseByRoll(roll, i) ==
    IF i > Len(PIECE_DEFINITIONS) THEN PIECE_DEFINITIONS[1]
    ELSE IF roll - PIECE_DEFINITIONS[i].rarityWeight <= 0 THEN PIECE_DEFINITIONS[i]
    ELSE ChooseByRoll(roll - PIECE_DEFINITIONS[i].rarityWeight, i + 1)

\* the values of Math.random() * totalWeight the model draws (each selects
\* one catalog entry: 5 the dot, 68 the 3x3 square)
DrawRolls == {5, 68}

\* the values of Math.floor(Math.random() * BLOCK_COLORS.length) the model draws
ColorRolls == {0}

getRandomColor(index) == BLOCK_COLORS[index + 1]

\* one drawn piece: the chosen definition (by id) and its colour
DrawnPieces ==
    {[definition |-> ChooseByRoll(roll, 1).id, color |-> getRandomColor(ci)] :
        roll \in {x \in DrawRolls : x < SumWeights(Len(PIECE_DEFINITIONS))}, ci \in ColorRolls}

\* every result getRandomPieces(count) can return for the modelled rolls
getRandomPieces(count) == [1..count -> DrawnPieces]

(***************************************************************************)
(* GridLogic.ts                                                            *)
(***************************************************************************)

createEmptyGrid(size) == [r \in 1..size |-> [c \in 1..size |-> Null]]


\* canPlacePiece, were the bounding box to stop one short of the last row
\* and column (>= for >)
canPlacePieceTight(grid, shape, row, col) ==
    LET gridRows == Len(grid)
        shapeRows == Len(shape)
    IN  IF gridRows = 0 THEN FALSE
        ELSE IF shapeRows = 0 THEN FALSE
        ELSE LET gridCols == Len(grid[1])
                 shapeCols == Len(shape[1])
             IN  IF row < 0 \/ col < 0 THEN FALSE
                 ELSE IF row + shapeRows >= gridRows THEN FALSE
                 ELSE IF col + shapeCols >= gridCols THEN FALSE
                 ELSE \A sr \in 0..(shapeRows - 1) : \A sc \in 0..(shapeCols - 1) :
                          shape[sr + 1][sc + 1] => grid[row + sr + 1][col + sc + 1] = Null

canPlacePiece(grid, shape, row, col) ==
    LET gridRows == Len(grid)
        shapeRows == Len(shape)
    IN  IF gridRows = 0 THEN FALSE
        ELSE IF shapeRows = 0 THEN FALSE
        ELSE LET gridCols == Len(grid[1])
                 shapeCols == Len(shape[1])
             IN  IF row < 0 \/ col < 0 THEN FALSE
                 ELSE IF row + shapeRows > gridRows THEN FALSE
                 ELSE IF col + shapeCols > gridCols THEN FALSE
                 ELSE \A sr \in 0..(shapeRows - 1) : \A sc \in 0..(shapeCols - 1) :
                          shape[sr + 1][sc + 1] => grid[row + sr + 1][col + sc + 1] = Null

placePiece(grid, shape, row, col, color) ==
    [r \in 1..Len(grid) |-> [c \in 1..Len(grid[r]) |->
        LET sr == (r - 1) - row
            sc == (c - 1) - col
        IN  IF /\ sr >= 0 /\ sr < Len(shape)
               /\ sc >= 0 /\ sc < Len(shape[1])
               /\ shape[sr + 1][sc + 1]
            THEN color
            ELSE grid[r][c]]]

\* the indexes of a set, pushed in increasing order as the scanning loops do
RECURSIVE AscendingSeq(_)
AscendingSeq(S) ==
    IF S = {} THEN <<>>
    ELSE LET m == CHOOSE x \in S : \A y \in S : x <= y
         IN  <<m>> \o AscendingSeq(S \ {m})


\* findCompletedLines, were the column scan to look at row 0 only
findCompletedLinesTopRow(grid) ==
    LET gridRows == Len(grid)
    IN  IF gridRows = 0 THEN [rows |-> <<>>, cols |-> <<>>]
        ELSE LET gridCols == Len(grid[1])
             IN  [rows |-> AscendingSeq({r \in 0..(gridRows - 1) :
                              \A c \in 0..(gridCols - 1) : grid[r + 1][c + 1] # Null}),
                  cols |-> AscendingSeq({c \in 0..(gridCols - 1) : grid[1][c + 1] # Null})]

findCompletedLines(grid) ==
    LET gridRows == Len(grid)
    IN  IF gridRows = 0 THEN [rows |-> <<>>, cols |-> <<>>]
        ELSE LET gridCols == Len(grid[1])
             IN  [rows |-> AscendingSeq({r \in 0..(gridRows - 1) :
                              \A c \in 0..(gridCols - 1) : grid[r + 1][c + 1] # Null}),
                  cols |-> AscendingSeq({c \in 0..(gridCols - 1) :
                              \A r \in 0..(gridRows - 1) : grid[r + 1][c + 1] # Null})]

\* the elements of a list of indexes
Elems(s) == {s[i] : i \in 1..Len(s)}


\* clearLines, were the listed columns left alone
clearLinesRowsOnly(grid, rows, cols) ==
    [r \in 1..Len(grid) |-> [c \in 1..Len(grid[r]) |->
        IF (r - 1) \in Elems(rows) THEN Null ELSE grid[r][c]]]

clearLines(grid, rows, cols) ==
    [r \in 1..Len(grid) |-> [c \in 1..Len(grid[r]) |->
        IF (r - 1) \in Elems(rows) \/ (c - 1) \in Elems(cols)
        THEN Null
        ELSE grid[r][c]]]

\* canAnyPieceFit, were the anchor loops to stop one short (< for <=)
canAnyPieceFitShort(grid, pieces) ==
    LET gridRows == Len(grid)
    IN  IF gridRows = 0 THEN FALSE
        ELSE LET gridCols == Len(grid[1])
             IN  \E i \in 1..Len(pieces) :
                     LET shape == pieces[i].shape
                         shapeRows == Len(shape)
                     IN  /\ shapeRows # 0
                         /\ \E r \in 0..(gridRows - shapeRows - 1) :
                                \E c \in 0..(gridCols - Len(shape[1]) - 1) :
                                    canPlacePiece(grid, shape, r, c)


\* canAnyPieceFit, were only the first piece of the list tried
canAnyPieceFitFirstPiece(grid, pieces) ==
    LET gridRows == Len(grid)
    IN  IF gridRows = 0 THEN FALSE
        ELSE LET gridCols == Len(grid[1])
             IN  \E i \in 1..Min(1, Len(pieces)) :
                     LET shape == pieces[i].shape
                         shapeRows == Len(shape)
                     IN  /\ shapeRows # 0
                         /\ \E r \in 0..(gridRows - shapeRows) :
                                \E c \in 0..(gridCols - Len(shape[1])) :
                                    canPlacePiece(grid, shape, r, c)

canAnyPieceFit(grid, pieces) ==
    LET gridRows == Len(grid)
    IN  IF gridRows = 0 THEN FALSE
        ELSE LET gridCols == Len(grid[1])
             IN  \E i \in 1..Len(pieces) :
                     LET shape == pieces[i].shape
                         shapeRows == Len(shape)
                     IN  /\ shapeRows # 0
                         /\ \E r \in 0..(gridRows - shapeRows) :
                                \E c \in 0..(gridCols - Len(shape[1])) :
                                    canPlacePiece(grid, shape, r, c)

\* countClearedCells, were the intersections counted twice
countClearedCellsDouble(grid, rows, cols) ==
    IF Len(grid) = 0 THEN 0
    ELSE Len(rows) * Len(grid[1]) + Len(cols) * Len(grid)


\* countClearedCells, were one intersection counted for each listed row only
countClearedCellsDiagonal(grid, rows, cols) ==
    IF Len(grid) = 0 THEN 0
    ELSE Len(rows) * Len(grid[1]) + Len(cols) * Len(grid) - Min(Len(rows), Len(cols))

countClearedCells(grid, rows, cols) ==
    IF Len(grid) = 0 THEN 0
    ELSE LET gridCols == Len(grid[1])
             gridRows == Len(grid)
             rowCells == Len(rows) * gridCols
             colCells == Len(cols) * gridRows
             intersections == Len(rows) * Len(cols)
         IN  rowCells + colCells - intersections

(***************************************************************************)
(* ScoreCalculator.ts                                                      *)
(***************************************************************************)

calculateScore(cellsCleared, comboLevel) ==
    LET clampedCombo == Max(1, Min(comboLevel, MAX_COMBO))
    IN  cellsCleared * POINTS_PER_CELL * clampedCombo

calculateCombo(linesCleared) ==
    IF linesCleared <= 0 THEN 1
    ELSE IF linesCleared >= MAX_COMBO THEN MAX_COMBO
    ELSE linesCleared

\* calculateStarRating, were the two-star threshold to need more than 75%
calculateStarRatingStrict(score, targetScore) ==
    IF targetScore <= 0 THEN 3
    ELSE IF score >= targetScore THEN 3
    ELSE IF 4 * score > 3 * targetScore THEN 2
    ELSE IF 2 * score >= targetScore THEN 1
    ELSE 0

\* score / targetScore compared with the thresholds 1.0, 0.75 and 0.5; for
\* integer operands the quotient reaches a threshold p/q exactly when
\* q * score >= p * targetScore
calculateStarRating(score, targetScore) ==
    IF targetScore <= 0 THEN 3
    ELSE IF score >= targetScore THEN 3
    ELSE IF 4 * score >= 3 * targetScore THEN 2
    ELSE IF 2 * score >= targetScore THEN 1
    ELSE 0

(***************************************************************************)
(* GameEngine.ts                                                           *)
(***************************************************************************)

RejectReasons == {"game_over", "level_complete", "invalid_piece", "cannot_place"}

\* the reduction of a list of pre-filled cells onto a grid (the loop of
\* createGameState: cells out of bounds are skipped, later cells overwrite)
RECURSIVE ApplyPrefilled(_, _, _)
ApplyPrefilled(grid, gridSize, cells) ==
    IF cells = <<>> THEN grid
    ELSE LET cell == Head(cells)
             next == IF /\ cell.row >= 0 /\ cell.row < gridSize
                        /\ cell.col >= 0 /\ cell.col < gridSize
                     THEN [grid EXCEPT ![cell.row + 1][cell.col + 1] = cell.color]
                     ELSE grid
         IN  ApplyPrefilled(next, gridSize, Tail(cells))

\* levelData is <<>> (no level, endless mode) or <<data>> (level mode);
\* randomPieces is the result of getRandomPieces(3)
createGameState(gridSize, levelData, randomPieces) ==
    [grid          |-> IF levelData # <<>>
                       THEN ApplyPrefilled(createEmptyGrid(gridSize), gridSize,
                                           levelData[1].prefilledCells)
                       ELSE createEmptyGrid(gridSize),
     gridSize      |-> gridSize,
     pieces        |-> [i \in 1..Len(randomPieces) |->
                           [definition |-> randomPieces[i].definition,
                            color      |-> randomPieces[i].color,
                            placed     |-> FALSE]],
     score         |-> 0,
     linesCleared  |-> 0,
     movesMade     |-> 0,
     bestCombo     |-> 0,
     mode          |-> IF levelData # <<>> THEN "level" ELSE "endless",
     levelData     |-> levelData,
     gameOver      |-> FALSE,
     levelComplete |-> FALSE,
     starRating    |-> 0,
     lastClear     |-> <<>>]

\* the pieces of a list that are not placed, in order (Array.filter)
Unplaced(pieces) == SelectSeq(pieces, LAMBDA p : ~p.placed)

\* Rejected, were a rejection to reset the clear event shown by the UI
RejectedDropsClear(st, reason) ==
    [state |-> [st EXCEPT !.lastClear = <<>>], success |-> FALSE, failReason |-> reason]

\* A rejected call: the state object it was given, and the reason.
Rejected(st, reason) == [state |-> st, success |-> FALSE, failReason |-> reason]

\* TerminalReason, were the guard on a completed level missing
TerminalReasonGameOverOnly(st) ==
    IF st.gameOver THEN "game_over" ELSE "none"

\* the guards on a finished session, in the order of the source
TerminalReason(st) ==
    IF st.gameOver THEN "game_over"
    ELSE IF st.levelComplete THEN "level_complete"
    ELSE "none"

\* InvalidPiece, were the placed flag not looked at
InvalidPieceRangeOnly(st, pieceIndex) ==
    pieceIndex < 0 \/ pieceIndex >= Len(st.pieces)

\* the piece-index validation
InvalidPiece(st, pieceIndex) ==
    IF pieceIndex < 0 \/ pieceIndex >= Len(st.pieces) THEN TRUE
    ELSE st.pieces[pieceIndex + 1].placed

\* LevelCompleteAfter, were the target to be exceeded rather than met
LevelCompleteAfterStrict(st, newLinesCleared) ==
    IF st.mode = "level" /\ st.levelData # <<>>
    THEN newLinesCleared > st.levelData[1].targetLines
    ELSE FALSE

\* the level-completion check, made before any refill
LevelCompleteAfter(st, newLinesCleared) ==
    IF st.mode = "level" /\ st.levelData # <<>>
    THEN newLinesCleared >= st.levelData[1].targetLines
    ELSE FALSE

\* FinalPieces, were the refill not to look at the completion of the level
FinalPiecesAlwaysRefill(newPieces, levelComplete, fresh) ==
    LET allPlaced == \A i \in 1..Len(newPieces) : newPieces[i].placed
    IN  IF allPlaced
        THEN [i \in 1..Len(fresh) |->
                 [definition |-> fresh[i].definition,
                  color      |-> fresh[i].color,
                  placed     |-> FALSE]]
        ELSE newPieces

\* the refill: fresh is what getRandomPieces(3) returns when it is called
FinalPieces(newPieces, levelComplete, fresh) ==
    LET allPlaced == \A i \in 1..Len(newPieces) : newPieces[i].placed
    IN  IF allPlaced /\ ~levelComplete
        THEN [i \in 1..Len(fresh) |->
                 [definition |-> fresh[i].definition,
                  color      |-> fresh[i].color,
                  placed     |-> FALSE]]
        ELSE newPieces

\* the first game-over check: no unplaced piece fits anywhere
NoPieceFits(newGrid, finalPieces, levelComplete) ==
    LET unplacedPieces == Unplaced(finalPieces)
    IN  IF ~levelComplete /\ Len(unplacedPieces) > 0
        THEN ~canAnyPieceFit(newGrid,
                 [i \in 1..Len(unplacedPieces) |-> [shape |-> ShapeOf(unplacedPieces[i])]])
        ELSE FALSE

\* OutOfMoves, were the session to end one move late (> for >=)
OutOfMovesLate(st, levelComplete, newMovesMade) ==
    /\ st.mode = "level"
    /\ st.levelData # <<>>
    /\ ~levelComplete
    /\ newMovesMade > st.levelData[1].targetMoves

\* OutOfMoves, were the completion of the level not looked at
OutOfMovesIgnoresComplete(st, levelComplete, newMovesMade) ==
    /\ st.mode = "level"
    /\ st.levelData # <<>>
    /\ newMovesMade >= st.levelData[1].targetMoves

\* the second game-over check: a level session has used its moves
OutOfMoves(st, levelComplete, newMovesMade) ==
    /\ st.mode = "level"
    /\ st.levelData # <<>>
    /\ ~levelComplete
    /\ newMovesMade >= st.levelData[1].targetMoves

\* ClearEvent, were the completed columns counted and scored but left on
\* the grid
ClearEventRowsOnly(placedGrid) ==
    LET completed == findCompletedLines(placedGrid)
        totalLinesNow == Len(completed.rows) + Len(completed.cols)
        comboLevel == calculateCombo(totalLinesNow)
        cellsCleared == IF totalLinesNow > 0
                        THEN countClearedCells(placedGrid, completed.rows, completed.cols)
                        ELSE 0
    IN  [rows          |-> completed.rows,
         cols          |-> completed.cols,
         totalLinesNow |-> totalLinesNow,
         comboLevel    |-> comboLevel,
         cellsCleared  |-> cellsCleared,
         pointsAwarded |-> IF totalLinesNow > 0
                           THEN calculateScore(cellsCleared, comboLevel)
                           ELSE 0,
         newGrid       |-> IF totalLinesNow > 0
                           THEN clearLines(placedGrid, completed.rows, <<>>)
                           ELSE placedGrid]

\* the clear event of a turn: the completed lines of the grid with the piece
\* on it, the points for them and the grid after clearing
ClearEvent(placedGrid) ==
    LET completed == findCompletedLines(placedGrid)
        totalLinesNow == Len(completed.rows) + Len(completed.cols)
        comboLevel == calculateCombo(totalLinesNow)
        cellsCleared == IF totalLinesNow > 0
                        THEN countClearedCells(placedGrid, completed.rows, completed.cols)
                        ELSE 0
    IN  [rows          |-> completed.rows,
         cols          |-> completed.cols,
         totalLinesNow |-> totalLinesNow,
         comboLevel    |-> comboLevel,
         cellsCleared  |-> cellsCleared,
         pointsAwarded |-> IF totalLinesNow > 0
                           THEN calculateScore(cellsCleared, comboLevel)
                           ELSE 0,
         newGrid       |-> IF totalLinesNow > 0
                           THEN clearLines(placedGrid, completed.rows, completed.cols)
                           ELSE placedGrid]

\* the accepted path of the handler, from the placement to the new state
Accepted(st, pieceIndex, row, col, fresh) ==
    LET piece == st.pieces[pieceIndex + 1]
        ev == ClearEvent(placePiece(st.grid, ShapeOf(piece), row, col, piece.color))
        newPieces == [i \in 1..Len(st.pieces) |->
                         IF i = pieceIndex + 1
                         THEN [st.pieces[i] EXCEPT !.placed = TRUE]
                         ELSE st.pieces[i]]
        newScore == st.score + ev.pointsAwarded
        newLinesCleared == st.linesCleared + ev.totalLinesNow
        newMovesMade == st.movesMade + 1
        levelComplete == LevelCompleteAfter(st, newLinesCleared)
        finalPieces == FinalPieces(newPieces, levelComplete, fresh)
    IN  [grid          |-> ev.newGrid,
         gridSize      |-> st.gridSize,
         pieces        |-> finalPieces,
         score         |-> newScore,
         linesCleared  |-> newLinesCleared,
         movesMade     |-> newMovesMade,
         bestCombo     |-> Max(st.bestCombo, ev.comboLevel),
         mode          |-> st.mode,
         levelData     |-> st.levelData,
         gameOver      |-> \/ NoPieceFits(ev.newGrid, finalPieces, levelComplete)
                           \/ OutOfMoves(st, levelComplete, newMovesMade),
         levelComplete |-> levelComplete,
         starRating    |-> IF levelComplete
                           THEN calculateStarRating(newScore, st.levelData[1].targetScore)
                           ELSE 0,
         lastClear     |-> IF ev.totalLinesNow > 0
                           THEN << [rows          |-> ev.rows,
                                    cols          |-> ev.cols,
                                    cellsCleared  |-> ev.cellsCleared,
                                    comboLevel    |-> ev.comboLevel,
                                    pointsAwarded |-> ev.pointsAwarded] >>
                           ELSE <<>>]

handlePiecePlacement(st, pieceIndex, row, col, fresh) ==
    IF TerminalReason(st) # "none" THEN Rejected(st, TerminalReason(st))
    ELSE IF InvalidPiece(st, pieceIndex) THEN Rejected(st, "invalid_piece")
    ELSE IF ~canPlacePiece(st.grid, ShapeOf(st.pieces[pieceIndex + 1]), row, col)
         THEN Rejected(st, "cannot_place")
    ELSE [state      |-> Accepted(st, pieceIndex, row, col, fresh),
          success    |-> TRUE,
          failReason |-> "none"]

(***************************************************************************)
(* LevelSerializer.ts: the digest routine sha256Simple. A 32-bit word is a  *)
(* pair <<high 16 bits, low 16 bits>>, each in 0..65535, so that every      *)
(* intermediate value stays below 2^31; the operations are those of the     *)
(* source modulo 2^32.                                                      *)
(***************************************************************************)

RECURSIVE Pow2(_)
Pow2(n) == IF n = 0 THEN 1 ELSE 2 * Pow2(n - 1)

RECURSIVE BitAnd(_, _, _)
BitAnd(a, b, bits) ==
    IF bits = 0 THEN 0
    ELSE (a % 2) * (b % 2) + 2 * BitAnd(a \div 2, b \div 2, bits - 1)

\* the bitwise and of two 4-bit values, tabulated
AndNibble == [a \in 0..15 |-> [b \in 0..15 |-> BitAnd(a, b, 4)]]

And16(a, b) ==
    AndNibble[a % 16][b % 16]
        + 16 * AndNibble[(a \div 16) % 16][(b \div 16) % 16]
        + 256 * AndNibble[(a \div 256) % 16][(b \div 256) % 16]
        + 4096 * AndNibble[a \div 4096][b \div 4096]

Or16(a, b) == a + b - And16(a, b)

Xor16(a, b) == a + b - 2 * And16(a, b)

\* x & y
And32(x, y) == <<And16(x[1], y[1]), And16(x[2], y[2])>>

\* x | y
Or32(x, y) == <<Or16(x[1], y[1]), Or16(x[2], y[2])>>

\* x ^ y
Xor32(x, y) == <<Xor16(x[1], y[1]), Xor16(x[2], y[2])>>

\* ~x
Not32(x) == <<65535 - x[1], 65535 - x[2]>>

\* (x + y) | 0
\* a variant whose sum loses the carry out of the low half
Add32NoCarry(x, y) == <<(x[1] + y[1]) % 65536, (x[2] + y[2]) % 65536>>

Add32(x, y) ==
    LET lo == x[2] + y[2]
        hi == x[1] + y[1] + (lo \div 65536)
    IN  <<hi % 65536, lo % 65536>>

\* x >>> n, for 0 < n < 32
Shr32(x, n) ==
    IF n < 16
    THEN <<x[1] \div Pow2(n), (x[2] \div Pow2(n)) + (x[1] % Pow2(n)) * Pow2(16 - n)>>
    ELSE <<0, x[1] \div Pow2(n - 16)>>

\* x << n, for 0 < n < 32
Shl32(x, n) ==
    IF n < 16
    THEN <<((x[1] * Pow2(n)) % 65536) + (x[2] \div Pow2(16 - n)), (x[2] * Pow2(n)) % 65536>>
    ELSE <<(x[2] * Pow2(n - 16)) % 65536, 0>>

rr(value, amount) == Or32(Shr32(value, amount), Shl32(value, 32 - amount))

\* the round constants
K ==
    <<<<17034, 12184>>, <<28983, 17553>>, <<46528, 64463>>, <<59829, 56229>>,
      <<14678, 49755>>, <<23025, 4593>>, <<37439, 33444>>, <<43804, 24277>>,
      <<55303, 43672>>, <<4739, 23297>>, <<9265, 34238>>, <<21772, 32195>>,
      <<29374, 23924>>, <<32990, 45566>>, <<39900, 1703>>, <<49563, 61812>>,
      <<58523, 27073>>, <<61374, 18310>>, <<4033, 40390>>, <<9228, 41420>>,
      <<11753, 11375>>, <<19060, 33962>>, <<23728, 43484>>, <<30457, 35034>>,
      <<38974, 20818>>, <<43057, 50797>>, <<45059, 10184>>, <<48985, 32711>>,
      <<50912, 3059>>, <<54695, 37191>>, <<1738, 25425>>, <<5161, 10599>>,
      <<10167, 2693>>, <<11803, 8504>>, <<19756, 28156>>, <<21304, 3347>>,
      <<25866, 29524>>, <<30314, 2747>>, <<33218, 51502>>, <<37490, 11397>>,
      <<41663, 59553>>, <<43034, 26187>>, <<49739, 35696>>, <<51052, 20899>>,
      <<53650, 59417>>, <<54937, 1572>>, <<62478, 13701>>, <<4202, 41072>>,
      <<6564, 49430>>, <<7735, 27656>>, <<10056, 30540>>, <<13488, 48309>>,
      <<14620, 3251>>, <<20184, 43594>>, <<23452, 51791>>, <<26670, 28659>>,
      <<29839, 33518>>, <<30885, 25455>>, <<33992, 30740>>, <<36039, 520>>,
      <<37054, 65530>>, <<42064, 27883>>, <<48889, 41975>>, <<50801, 30962>>>>

\* the initial hash state
H0 ==
    <<<<27145, 58983>>, <<47975, 44677>>, <<15470, 62322>>, <<42319, 62778>>,
      <<20750, 21119>>, <<39685, 26764>>, <<8067, 55723>>, <<23520, 52505>>>>

\* the concatenation of the sequences parts[lo], ..., parts[hi], by halves
RECURSIVE FlattenRange(_, _, _)
FlattenRange(parts, lo, hi) ==
    IF hi < lo THEN <<>>
    ELSE IF lo = hi THEN parts[lo]
    ELSE LET mid == (lo + hi) \div 2
         IN  FlattenRange(parts, lo, mid) \o FlattenRange(parts, mid + 1, hi)

Flatten(parts) == FlattenRange(parts, 1, Len(parts))

\* a code unit of the surrogate range, the last branch of stringToUtf8Bytes
IsSurrogate(code) == code >= 55296 /\ code < 57344

\* TRUE when the loop of stringToUtf8Bytes reads the unit at position p
\* (from 1) as the second half of a pair, by the i++ of the last branch
RECURSIVE ReadAsLow(_, _)
ReadAsLow(str, p) ==
    /\ p > 1
    /\ IsSurrogate(str[p - 1])
    /\ ~ReadAsLow(str, p - 1)

\* the bytes one iteration of the loop pushes, for the unit at position p
Utf8At(str, p) ==
    LET code == str[p]
    IN  IF code < 128 THEN <<code>>
        ELSE IF code < 2048 THEN <<192 + (code \div 64), 128 + (code % 64)>>
        ELSE IF ~IsSurrogate(code)
             THEN <<224 + (code \div 4096), 128 + ((code \div 64) % 64), 128 + (code % 64)>>
        ELSE LET lo == IF p < Len(str) THEN str[p + 1] ELSE 0
                 codePoint == 65536 + ((code % 1024) * 1024 + (lo % 1024))
             IN  <<240 + (codePoint \div 262144),
                   128 + ((codePoint \div 4096) % 64),
                   128 + ((codePoint \div 64) % 64),
                   128 + (codePoint % 64)>>

\* the UTF-8 bytes of a string given as its UTF-16 code units
stringToUtf8Bytes(str) ==
    Flatten([p \in 1..Len(str) |-> IF ReadAsLow(str, p) THEN <<>> ELSE Utf8At(str, p)])

\* the padding, were a whole block of zeros added when the bytes, 0x80 and
\* the length already fill their blocks
PadMessageExtraBlock(msgBytes) ==
    LET n == Len(msgBytes)
        bitLength == n * 8
        padLen == 64 - ((n + 9) % 64)
        totalLen == n + 1 + padLen + 8
        lenOffset == totalLen - 8
    IN  [i \in 1..totalLen |->
            IF i <= n THEN msgBytes[i]
            ELSE IF i = n + 1 THEN 128
            ELSE IF i = lenOffset + 5 THEN (bitLength \div 16777216) % 256
            ELSE IF i = lenOffset + 6 THEN (bitLength \div 65536) % 256
            ELSE IF i = lenOffset + 7 THEN (bitLength \div 256) % 256
            ELSE IF i = lenOffset + 8 THEN bitLength % 256
            ELSE 0]

\* the padded message: the bytes, 0x80, zeros, and the bit length in the
\* last eight bytes (the high four hold Math.floor(bitLength / 2^32), which
\* is 0 for every message shorter than 2^29 bytes)
PadMessage(msgBytes) ==
    LET n == Len(msgBytes)
        bitLength == n * 8
        padLen == 64 - ((n + 9) % 64)
        totalLen == n + 1 + (IF padLen = 64 THEN 0 ELSE padLen) + 8
        lenOffset == totalLen - 8
    IN  [i \in 1..totalLen |->
            IF i <= n THEN msgBytes[i]
            ELSE IF i = n + 1 THEN 128
            ELSE IF i = lenOffset + 5 THEN (bitLength \div 16777216) % 256
            ELSE IF i = lenOffset + 6 THEN (bitLength \div 65536) % 256
            ELSE IF i = lenOffset + 7 THEN (bitLength \div 256) % 256
            ELSE IF i = lenOffset + 8 THEN bitLength % 256
            ELSE 0]

\* w[ii] of the message schedule, for 16 <= ii < 64, from the words before it
ScheduleWord(w, ii) ==
    LET w15 == w[ii - 15 + 1]
        w2 == w[ii - 2 + 1]
        s0 == Xor32(Xor32(rr(w15, 7), rr(w15, 18)), Shr32(w15, 3))
        s1 == Xor32(Xor32(rr(w2, 17), rr(w2, 19)), Shr32(w2, 10))
    IN  Add32(Add32(Add32(w[ii - 16 + 1], s0), w[ii - 7 + 1]), s1)

\* the loop that fills w up to w[to - 1]; ii, the index filled next, is the
\* number of words so far; the iterations are taken by halves
RECURSIVE Schedule(_, _)
Schedule(w, to) ==
    LET ii == Len(w)
    IN  IF to <= ii THEN w
        ELSE IF to - ii = 1 THEN Append(w, ScheduleWord(w, ii))
        ELSE Schedule(Schedule(w, (ii + to) \div 2), to)

BlockWords(padded, offset) ==
    [ii \in 1..16 |->
        LET j == offset + (ii - 1) * 4
        IN  <<padded[j + 1] * 256 + padded[j + 2], padded[j + 3] * 256 + padded[j + 4]>>]

\* one iteration of the compression loop: v is <<a, b, c, d, e, f, g, hh>>
Round(v, k, wi) ==
    LET a == v[1]
        b == v[2]
        c == v[3]
        d == v[4]
        e == v[5]
        f == v[6]
        g == v[7]
        hh == v[8]
        S1 == Xor32(Xor32(rr(e, 6), rr(e, 11)), rr(e, 25))
        ch == Xor32(And32(e, f), And32(Not32(e), g))
        temp1 == Add32(Add32(Add32(Add32(hh, S1), ch), k), wi)
        S0 == Xor32(Xor32(rr(a, 2), rr(a, 13)), rr(a, 22))
        maj == Xor32(Xor32(And32(a, b), And32(a, c)), And32(b, c))
        temp2 == Add32(S0, maj)
    IN  <<Add32(temp1, temp2), a, b, c, Add32(d, temp1), e, f, g>>

\* the compression loop up to iteration to - 1, from the loop state
\* [regs |-> <<a, b, c, d, e, f, g, hh>>, ii |-> the iteration made next];
\* the iterations are taken by halves
RECURSIVE Compress(_, _, _)
Compress(loop, w, to) ==
    IF to <= loop.ii THEN loop
    ELSE IF to - loop.ii = 1
         THEN [regs |-> Round(loop.regs, K[loop.ii + 1], w[loop.ii + 1]), ii |-> to]
    ELSE Compress(Compress(loop, w, (loop.ii + to) \div 2), w, to)

RECURSIVE HashBlocks(_, _, _)
HashBlocks(h, padded, offset) ==
    IF offset >= Len(padded) THEN h
    ELSE LET w == Schedule(BlockWords(padded, offset), 64)
             v == Compress([regs |-> h, ii |-> 0], w, 64).regs
         IN  HashBlocks([i \in 1..8 |-> Add32(h[i], v[i])], padded, offset + 64)

\* the character code of a hexadecimal digit, lowercase
HexDigit(d) == IF d < 10 THEN 48 + d ELSE 87 + d

\* (word >>> 0).toString(16).padStart(8, '0')
WordHex(x) ==
    <<HexDigit(x[1] \div 4096), HexDigit((x[1] \div 256) % 16),
      HexDigit((x[1] \div 16) % 16), HexDigit(x[1] % 16),
      HexDigit(x[2] \div 4096), HexDigit((x[2] \div 256) % 16),
      HexDigit((x[2] \div 16) % 16), HexDigit(x[2] % 16)>>

\* the digest of a string (its UTF-16 code units), as the 64 character codes
\* of its lowercase hexadecimal form
sha256Simple(message) ==
    LET h == HashBlocks(H0, PadMessage(stringToUtf8Bytes(message)), 0)
    IN  WordHex(h[1]) \o WordHex(h[2]) \o WordHex(h[3]) \o WordHex(h[4])
            \o WordHex(h[5]) \o WordHex(h[6]) \o WordHex(h[7]) \o WordHex(h[8])

(***************************************************************************)
(* LevelSerializer.ts: the canonical text of generateChecksum. A text is    *)
(* the sequence of its UTF-16 code units; CodeUnits gives the text of each  *)
(* string the model names.                                                  *)
(***************************************************************************)

CodeUnits ==
    ("cells" :> <<99, 101, 108, 108, 115>>) @@
    ("checksum" :> <<99, 104, 101, 99, 107, 115, 117, 109>>) @@
    ("col" :> <<99, 111, 108>>) @@
    ("color" :> <<99, 111, 108, 111, 114>>) @@
    ("createdAt" :> <<99, 114, 101, 97, 116, 101, 100, 65, 116>>) @@
    ("creatorId" :> <<99, 114, 101, 97, 116, 111, 114, 73, 100>>) @@
    ("difficulty" :> <<100, 105, 102, 102, 105, 99, 117, 108, 116, 121>>) @@
    ("gridSize" :> <<103, 114, 105, 100, 83, 105, 122, 101>>) @@
    ("meta" :> <<109, 101, 116, 97>>) @@
    ("name" :> <<110, 97, 109, 101>>) @@
    ("row" :> <<114, 111, 119>>) @@
    ("targetLines" :> <<116, 97, 114, 103, 101, 116, 76, 105, 110, 101, 115>>) @@
    ("targetMoves" :> <<116, 97, 114, 103, 101, 116, 77, 111, 118, 101, 115>>) @@
    ("targetScore" :> <<116, 97, 114, 103, 101, 116, 83, 99, 111, 114, 101>>) @@
    ("version" :> <<118, 101, 114, 115, 105, 111, 110>>) @@
    ("red" :> <<114, 101, 100>>) @@
    ("blue" :> <<98, 108, 117, 101>>) @@
    ("green" :> <<103, 114, 101, 101, 110>>) @@
    ("yellow" :> <<121, 101, 108, 108, 111, 119>>) @@
    ("purple" :> <<112, 117, 114, 112, 108, 101>>) @@
    ("orange" :> <<111, 114, 97, 110, 103, 101>>) @@
    ("cyan" :> <<99, 121, 97, 110>>) @@
    ("pink" :> <<112, 105, 110, 107>>) @@
    ("easy" :> <<101, 97, 115, 121>>) @@
    ("standard" :> <<115, 116, 97, 110, 100, 97, 114, 100>>) @@
    ("hard" :> <<104, 97, 114, 100>>) @@
    ("Spiral" :> <<83, 112, 105, 114, 97, 108>>) @@
    ("Say \"hi\"" :> <<83, 97, 121, 32, 34, 104, 105, 34>>) @@
    ("user-1" :> <<117, 115, 101, 114, 45, 49>>) @@
    ("user-2" :> <<117, 115, 101, 114, 45, 50>>) @@
    ("2026-01-01T00:00:00.000Z" :> <<50, 48, 50, 54, 45, 48, 49, 45, 48, 49, 84, 48, 48, 58, 48, 48, 58, 48, 48, 46, 48, 48, 48, 90>>) @@
    ("2026-06-15T12:30:45.500Z" :> <<50, 48, 50, 54, 45, 48, 54, 45, 49, 53, 84, 49, 50, 58, 51, 48, 58, 52, 53, 46, 53, 48, 48, 90>>) @@
    ("" :> <<>>) @@
    ("   " :> <<32, 32, 32>>) @@
    ("medium" :> <<109, 101, 100, 105, 117, 109>>) @@
    ("expert" :> <<101, 120, 112, 101, 114, 116>>) @@
    ("teal" :> <<116, 101, 97, 108>>) @@
    ("3f2b8c1e-5d4a-4e6f-9a7b-0c1d2e3f4a5b" :> <<51, 102, 50, 98, 56, 99, 49, 101, 45, 53, 100, 52, 97, 45, 52, 101, 54, 102, 45, 57, 97, 55, 98, 45, 48, 99, 49, 100, 50, 101, 51, 102, 52, 97, 53, 98>>) @@
    ("Level name of 30 characters xx" :> <<76, 101, 118, 101, 108, 32, 110, 97, 109, 101, 32, 111, 102, 32, 51, 48, 32, 99, 104, 97, 114, 97, 99, 116, 101, 114, 115, 32, 120, 120>>) @@
    ("Level name of 31 characters xxx" :> <<76, 101, 118, 101, 108, 32, 110, 97, 109, 101, 32, 111, 102, 32, 51, 49, 32, 99, 104, 97, 114, 97, 99, 116, 101, 114, 115, 32, 120, 120, 120>>) @@
    ("Level name of 64 characters xxxxxxxxxxxxxxxxxxxxxxxxxxxxxxxxxxxx" :> <<76, 101, 118, 101, 108, 32, 110, 97, 109, 101, 32, 111, 102, 32, 54, 52, 32, 99, 104, 97, 114, 97, 99, 116, 101, 114, 115, 32, 120, 120, 120, 120, 120, 120, 120, 120, 120, 120, 120, 120, 120, 120, 120, 120, 120, 120, 120, 120, 120, 120, 120, 120, 120, 120, 120, 120, 120, 120, 120, 120, 120, 120, 120, 120>>) @@
    ("Level name of 65 characters xxxxxxxxxxxxxxxxxxxxxxxxxxxxxxxxxxxxx" :> <<76, 101, 118, 101, 108, 32, 110, 97, 109, 101, 32, 111, 102, 32, 54, 53, 32, 99, 104, 97, 114, 97, 99, 116, 101, 114, 115, 32, 120, 120, 120, 120, 120, 120, 120, 120, 120, 120, 120, 120, 120, 120, 120, 120, 120, 120, 120, 120, 120, 120, 120, 120, 120, 120, 120, 120, 120, 120, 120, 120, 120, 120, 120, 120, 120>>)

\* the values JSON.stringify is given: members lists the own properties of
\* an object as <<key, value>> in insertion order
JNumber(n) == [type |-> "number", value |-> n]

JString(units) == [type |-> "string", value |-> units]

JArray(items) == [type |-> "array", value |-> items]

JObject(members) == [type |-> "object", value |-> members]

RECURSIVE Digits(_)
Digits(n) == IF n < 10 THEN <<48 + n>> ELSE Digits(n \div 10) \o <<48 + (n % 10)>>

\* the text of an integer
NumberText(n) == IF n < 0 THEN <<45>> \o Digits(-n) ELSE Digits(n)

\* the text of a string: quoted, with the quote, the backslash and the
\* control characters escaped
EscapeUnit(u) ==
    IF u = 34 THEN <<92, 34>>
    ELSE IF u = 92 THEN <<92, 92>>
    ELSE IF u = 8 THEN <<92, 98>>
    ELSE IF u = 9 THEN <<92, 116>>
    ELSE IF u = 10 THEN <<92, 110>>
    ELSE IF u = 12 THEN <<92, 102>>
    ELSE IF u = 13 THEN <<92, 114>>
    ELSE IF u < 32 THEN <<92, 117, 48, 48, HexDigit(u \div 16), HexDigit(u % 16)>>
    ELSE <<u>>

EscapeUnits(units) == Flatten([i \in 1..Len(units) |-> EscapeUnit(units[i])])

QuoteText(units) == <<34>> \o EscapeUnits(units) \o <<34>>

\* JSON.stringify(value, propertyList) with an array as replacer: of every
\* object, at every depth, only the properties named in the list are
\* written, in the order of the list; the elements of an array are all written
RECURSIVE Stringify(_, _)
RECURSIVE StringifyItems(_, _)
RECURSIVE StringifyMembers(_, _, _)
Stringify(val, propertyList) ==
    CASE val.type = "number" -> NumberText(val.value)
      [] val.type = "string" -> QuoteText(val.value)
      [] val.type = "array" -> <<91>> \o StringifyItems(val.value, propertyList) \o <<93>>
      [] val.type = "object" ->
            LET written == SelectSeq(propertyList,
                               LAMBDA key : \E i \in 1..Len(val.value) : val.value[i][1] = key)
            IN  <<123>> \o StringifyMembers(val.value, written, propertyList) \o <<125>>

StringifyItems(items, propertyList) ==
    IF Len(items) = 0 THEN <<>>
    ELSE Stringify(Head(items), propertyList)
             \o (IF Len(items) > 1
                 THEN <<44>> \o StringifyItems(Tail(items), propertyList)
                 ELSE <<>>)

StringifyMembers(members, keys, propertyList) ==
    IF Len(keys) = 0 THEN <<>>
    ELSE LET key == Head(keys)
             i == CHOOSE j \in 1..Len(members) : members[j][1] = key
         IN  QuoteText(CodeUnits[key]) \o <<58>> \o Stringify(members[i][2], propertyList)
                 \o (IF Len(keys) > 1
                     THEN <<44>> \o StringifyMembers(members, Tail(keys), propertyList)
                     ELSE <<>>)

\* Object.keys(data)
ObjectKeys(data) == [i \in 1..Len(data.value) |-> data.value[i][1]]

\* the order of Array.prototype.sort without a comparator: by code units
RECURSIVE UnitsBefore(_, _)
UnitsBefore(s, t) ==
    IF Len(t) = 0 THEN FALSE
    ELSE IF Len(s) = 0 THEN TRUE
    ELSE IF Head(s) # Head(t) THEN Head(s) < Head(t)
    ELSE UnitsBefore(Tail(s), Tail(t))

RECURSIVE InsertKey(_, _)
InsertKey(key, sorted) ==
    IF Len(sorted) = 0 THEN <<key>>
    ELSE IF UnitsBefore(CodeUnits[key], CodeUnits[Head(sorted)]) THEN <<key>> \o sorted
    ELSE <<Head(sorted)>> \o InsertKey(key, Tail(sorted))

RECURSIVE SortKeys(_)
SortKeys(keys) ==
    IF Len(keys) = 0 THEN <<>> ELSE InsertKey(Head(keys), SortKeys(Tail(keys)))

generateChecksum(data) ==
    LET json == Stringify(data, SortKeys(ObjectKeys(data)))
    IN  sha256Simple(json)

\* the objects of the codec as JSON values, properties in the order the
\* source writes them
CellJson(cell) ==
    JObject(<< <<"row", JNumber(cell.row)>>,
               <<"col", JNumber(cell.col)>>,
               <<"color", JString(CodeUnits[cell.color])>> >>)

MetaJson(meta) ==
    JObject(<< <<"name", JString(CodeUnits[meta.name])>>,
               <<"creatorId", JString(CodeUnits[meta.creatorId])>>,
               <<"targetLines", JNumber(meta.targetLines)>>,
               <<"targetMoves", JNumber(meta.targetMoves)>>,
               <<"targetScore", JNumber(meta.targetScore)>>,
               <<"difficulty", JString(CodeUnits[meta.difficulty])>> >>)

\* Omit<SerializedLevel, 'checksum'>
PayloadMembers(data) ==
    << <<"version", JNumber(data.version)>>,
       <<"gridSize", JNumber(data.gridSize)>>,
       <<"cells", JArray([i \in 1..Len(data.cells) |-> CellJson(data.cells[i])])>>,
       <<"meta", MetaJson(data.meta)>>,
       <<"createdAt", JString(CodeUnits[data.createdAt])>> >>

PayloadJson(data) == JObject(PayloadMembers(data))

\* SerializedLevel: { ...payload, checksum }
LevelJson(data) ==
    JObject(Append(PayloadMembers(data), <<"checksum", JString(data.checksum)>>))

\* the non-empty cells of a grid, in row-major order

\* the walk of serializeLevel, were its column loop to stop one short
SparseCellsShort(grid) ==
    LET gridSize == Len(grid)
        walk == [k \in 1..(gridSize * gridSize) |->
                    [row |-> (k - 1) \div gridSize, col |-> (k - 1) % gridSize]]
        filled == SelectSeq(walk, LAMBDA p : p.col < gridSize - 1
                                             /\ grid[p.row + 1][p.col + 1] # Null)
    IN  [i \in 1..Len(filled) |->
            [row   |-> filled[i].row,
             col   |-> filled[i].col,
             color |-> grid[filled[i].row + 1][filled[i].col + 1]]]

SparseCells(grid) ==
    LET gridSize == Len(grid)
        walk == [k \in 1..(gridSize * gridSize) |->
                    [row |-> (k - 1) \div gridSize, col |-> (k - 1) % gridSize]]
        filled == SelectSeq(walk, LAMBDA p : grid[p.row + 1][p.col + 1] # Null)
    IN  [i \in 1..Len(filled) |->
            [row   |-> filled[i].row,
             col   |-> filled[i].col,
             color |-> grid[filled[i].row + 1][filled[i].col + 1]]]

\* now is the value of new Date().toISOString() at the call
serializeLevel(grid, meta, now) ==
    LET payload == [version   |-> 1,
                    gridSize  |-> Len(grid),
                    cells     |-> SparseCells(grid),
                    meta      |-> meta,
                    createdAt |-> now]
        checksum == generateChecksum(PayloadJson(payload))
    IN  [version   |-> payload.version,
         gridSize  |-> payload.gridSize,
         cells     |-> payload.cells,
         meta      |-> payload.meta,
         createdAt |-> payload.createdAt,
         checksum  |-> checksum]

\* the comparison made on the whole record, checksum included
verifyChecksumWholeRecord(data) ==
    LET computed == generateChecksum(LevelJson(data))
    IN  computed = data.checksum

verifyChecksum(data) ==
    LET rest == PayloadJson(data)
        computed == generateChecksum(rest)
    IN  computed = data.checksum

(***************************************************************************)
(* LevelSerializer.ts, deserializeLevel; LevelValidator.ts, checkSolvability *)
(***************************************************************************)

\* the loop over data.cells is the loop of createGameState: cells out of
\* bounds are dropped, later cells overwrite
deserializeLevel(data) ==
    [grid     |-> ApplyPrefilled(createEmptyGrid(data.gridSize), data.gridSize, data.cells),
     gridSize |-> data.gridSize,
     meta     |-> data.meta]

\* the number of null cells of a grid
\* a variant that counts one cell more than are empty
CountNullCellsPlusOne(grid, gridSize) ==
    Cardinality({p \in (1..gridSize) \X (1..gridSize) : grid[p[1]][p[2]] = Null}) + 1

CountNullCells(grid, gridSize) ==
    Cardinality({p \in (1..gridSize) \X (1..gridSize) : grid[p[1]][p[2]] = Null})

\* a variant that counts the complete rows only
countCompleteLinesInGridRowsOnly(grid, gridSize) ==
    Cardinality({r \in 1..gridSize : \A c \in 1..gridSize : grid[r][c] # Null})

countCompleteLinesInGrid(grid, gridSize) ==
    Cardinality({r \in 1..gridSize : \A c \in 1..gridSize : grid[r][c] # Null})
        + Cardinality({c \in 1..gridSize : \A r \in 1..gridSize : grid[r][c] # Null})

\* the result carries a tag for the reason text
checkSolvability(levelData) ==
    LET level == deserializeLevel(levelData)
        grid == level.grid
        gridSize == level.gridSize
        targetLines == levelData.meta.targetLines
        targetMoves == levelData.meta.targetMoves
        emptyCells == CountNullCells(grid, gridSize)
        prefilledLines == countCompleteLinesInGrid(grid, gridSize)
        prefilledComplete == countCompleteLinesInGrid(grid, gridSize)
        maxLinesPerMove == 2
        maxPossibleLines == prefilledComplete + targetMoves * maxLinesPerMove
    IN  IF emptyCells = 0
        THEN IF prefilledLines >= targetLines
             THEN [solvable |-> TRUE, reason |-> "prefilled_meets_target",
                   maxPossibleLines |-> prefilledLines]
             ELSE [solvable |-> FALSE, reason |-> "full_and_insufficient",
                   maxPossibleLines |-> prefilledLines]
        ELSE IF targetLines > maxPossibleLines
             THEN [solvable |-> FALSE, reason |-> "target_exceeds_estimate",
                   maxPossibleLines |-> maxPossibleLines]
        ELSE IF emptyCells < 1 /\ prefilledComplete = 0
             THEN [solvable |-> FALSE, reason |-> "no_room", maxPossibleLines |-> 0]
        ELSE [solvable |-> TRUE, reason |-> "appears_solvable",
              maxPossibleLines |-> maxPossibleLines]

(***************************************************************************)
(* LevelValidator.ts: validateLevel. A value that the source reads as a     *)
(* number is [kind, v]: the integer v, the number v + 1/2 (a number that is *)
(* not an integer), or null. The errors of a result are their codes, in the *)
(* order pushed; the warnings are tags of their texts.                      *)
(***************************************************************************)

JSInt(v) == [kind |-> "int", v |-> v]

JSHalf(v) == [kind |-> "fraction", v |-> v]

JSNull == [kind |-> "null", v |-> 0]

\* x == null
IsNull(x) == x.kind = "null"

\* Number.isInteger(x)
IsInteger(x) == x.kind = "int"

\* typeof x === 'number'
IsNumber(x) == x.kind \in {"int", "fraction"}

\* twice the number x, which is an integer; in a comparison null counts as 0
Twice(x) == IF IsNull(x) THEN 0 ELSE IF x.kind = "int" THEN 2 * x.v ELSE 2 * x.v + 1

\* x < y and x > y between two such values
LessThan(x, y) == Twice(x) < Twice(y)

GreaterThan(x, y) == Twice(x) > Twice(y)

VALID_GRID_SIZES == {6, 8, 10}

VALID_COLORS == {BLOCK_COLORS[i] : i \in 1..Len(BLOCK_COLORS)}

MAX_NAME_LENGTH == 64

MAX_DESCRIPTION_LENGTH == 256

MIN_TARGET_LINES == 1

MIN_TARGET_MOVES == 1

MAX_TARGET_MOVES == 999

\* the code units String.prototype.trim removes
WhiteSpaceUnits == {9, 10, 11, 12, 13, 32, 160, 5760, 8232, 8233, 8239, 8287, 12288, 65279}
                       \cup (8192..8202)

\* !s || s.trim().length === 0, for a string s
IsBlank(s) == \A i \in 1..Len(CodeUnits[s]) : CodeUnits[s][i] \in WhiteSpaceUnits

validateCell(cell, gridSize, index) ==
    (IF IsNull(cell.row) \/ ~IsInteger(cell.row) THEN <<"INVALID_CELL_ROW">>
     ELSE IF cell.row.v < 0 \/ cell.row.v >= gridSize THEN <<"CELL_ROW_OUT_OF_BOUNDS">>
     ELSE <<>>)
    \o (IF IsNull(cell.col) \/ ~IsInteger(cell.col) THEN <<"INVALID_CELL_COL">>
        ELSE IF cell.col.v < 0 \/ cell.col.v >= gridSize THEN <<"CELL_COL_OUT_OF_BOUNDS">>
        ELSE <<>>)
    \o (IF cell.color \notin VALID_COLORS THEN <<"INVALID_CELL_COLOR">> ELSE <<>>)

\* meta is <<>> (null or undefined) or <<the record>>; description is <<>>
\* or <<its length>>
validateMeta(meta) ==
    IF meta = <<>> THEN <<"MISSING_META">>
    ELSE LET mt == meta[1]
         IN  (IF IsBlank(mt.name) THEN <<"MISSING_NAME">>
              ELSE IF Len(CodeUnits[mt.name]) > MAX_NAME_LENGTH THEN <<"NAME_TOO_LONG">>
              ELSE <<>>)
             \o (IF IsBlank(mt.creatorId) THEN <<"MISSING_CREATOR_ID">> ELSE <<>>)
             \o (IF IsNull(mt.targetLines) \/ ~IsInteger(mt.targetLines)
                 THEN <<"INVALID_TARGET_LINES">>
                 ELSE IF mt.targetLines.v < MIN_TARGET_LINES THEN <<"TARGET_LINES_TOO_LOW">>
                 ELSE <<>>)
             \o (IF IsNull(mt.targetMoves) \/ ~IsInteger(mt.targetMoves)
                 THEN <<"INVALID_TARGET_MOVES">>
                 ELSE IF mt.targetMoves.v < MIN_TARGET_MOVES THEN <<"TARGET_MOVES_TOO_LOW">>
                 ELSE IF mt.targetMoves.v > MAX_TARGET_MOVES THEN <<"TARGET_MOVES_TOO_HIGH">>
                 ELSE <<>>)
             \o (IF IsNull(mt.targetScore) \/ ~IsNumber(mt.targetScore)
                 THEN <<"INVALID_TARGET_SCORE">>
                 ELSE IF LessThan(mt.targetScore, JSInt(0)) THEN <<"TARGET_SCORE_NEGATIVE">>
                 ELSE <<>>)
             \o (IF mt.difficulty \notin {"easy", "medium", "hard", "expert"}
                 THEN <<"INVALID_DIFFICULTY">>
                 ELSE <<>>)
             \o (IF mt.description # <<>> /\ mt.description[1] > MAX_DESCRIPTION_LENGTH
                 THEN <<"DESCRIPTION_TOO_LONG">>
                 ELSE <<>>)

\* The errors of the loop over the cells are those of validateCell for cell i,
\* then DUPLICATE_CELL when an earlier cell has the same `${row},${col}`.
\* First a variant whose loop ends at the first error it finds.
CellErrorsFirstOnly(cells, gridSize) ==
    LET all == Flatten([i \in 1..Len(cells) |->
                           validateCell(cells[i], gridSize, i - 1)
                               \o (IF \E j \in 1..(i - 1) :
                                         /\ cells[j].row = cells[i].row
                                         /\ cells[j].col = cells[i].col
                                   THEN <<"DUPLICATE_CELL">>
                                   ELSE <<>>)])
    IN  IF all = <<>> THEN <<>> ELSE <<all[1]>>

CellErrors(cells, gridSize) ==
    Flatten([i \in 1..Len(cells) |->
                validateCell(cells[i], gridSize, i - 1)
                    \o (IF \E j \in 1..(i - 1) :
                              /\ cells[j].row = cells[i].row
                              /\ cells[j].col = cells[i].col
                        THEN <<"DUPLICATE_CELL">>
                        ELSE <<>>)])

\* levelData.cells is [isArray, items]; levelData.version a number or null
validateLevel(levelData) ==
    LET versionErrors == IF IsNull(levelData.version) \/ LessThan(levelData.version, JSInt(1))
                         THEN <<"INVALID_VERSION">>
                         ELSE <<>>
        sizeErrors == IF levelData.gridSize \notin VALID_GRID_SIZES
                      THEN <<"INVALID_GRID_SIZE">>
                      ELSE <<>>
        cellErrors == IF ~levelData.cells.isArray THEN <<"INVALID_CELLS">>
                      ELSE CellErrors(levelData.cells.items, levelData.gridSize)
        count == Len(levelData.cells.items)
        maxCells == levelData.gridSize * levelData.gridSize
        cellWarnings ==
            IF ~levelData.cells.isArray THEN <<>>
            ELSE (IF count * 100 > 85 * maxCells THEN <<"very_full">> ELSE <<>>)
                 \o (IF count = 0 THEN <<"no_cells">> ELSE <<>>)
        metaErrors == validateMeta(levelData.meta)
        metaWarnings ==
            IF levelData.meta = <<>> THEN <<>>
            ELSE (IF GreaterThan(levelData.meta[1].targetLines, JSInt(levelData.gridSize * 2))
                  THEN <<"target_lines_high">>
                  ELSE <<>>)
                 \o (IF LessThan(levelData.meta[1].targetMoves, levelData.meta[1].targetLines)
                     THEN <<"moves_below_lines">>
                     ELSE <<>>)
        errors == versionErrors \o sizeErrors \o cellErrors \o metaErrors
    IN  [valid    |-> Len(errors) = 0,
         errors   |-> errors,
         warnings |-> cellWarnings \o metaWarnings]

(***************************************************************************)
(* The backend's checks of a created level: the request body is parsed by  *)
(* createLevelSchema (validators/level.ts) and body.levelData is then      *)
(* given to validateLevelData, which throws at the first rule broken. Both *)
(* are modelled by whether they accept.                                    *)
(***************************************************************************)

\* z.number().int().min(low).max(high)
IntBetween(x, low, high) == IsInteger(x) /\ low <= x.v /\ x.v <= high

\* z.number().int().min(low)
IntAtLeast(x, low) == IsInteger(x) /\ low <= x.v

gridSizeSchema(gridSize) == gridSize \in {6, 8, 10}

difficultySchema(difficulty) == difficulty \in {"easy", "medium", "hard", "expert"}

HexUnits == (48..57) \cup (65..70) \cup (97..102)

\* z.string().uuid(): five groups of 8, 4, 4, 4 and 12 hexadecimal digits
\* joined by hyphens
IsUuid(s) ==
    LET u == CodeUnits[s]
    IN  /\ Len(u) = 36
        /\ \A i \in 1..36 : IF i \in {9, 14, 19, 24} THEN u[i] = 45 ELSE u[i] \in HexUnits

\* z.string().datetime(): a UTC time as Date.prototype.toISOString writes it
IsDatetime(s) ==
    LET u == CodeUnits[s]
    IN  /\ Len(u) = 24
        /\ \A i \in 1..24 :
               CASE i \in {5, 8} -> u[i] = 45
                 [] i = 11 -> u[i] = 84
                 [] i \in {14, 17} -> u[i] = 58
                 [] i = 20 -> u[i] = 46
                 [] i = 24 -> u[i] = 90
                 [] OTHER -> u[i] \in 48..57

gridCellSchema(cell) ==
    /\ IntAtLeast(cell.r, 0)
    /\ IntAtLeast(cell.c, 0)
    /\ IntBetween(cell.color, 0, 7)

levelMetaSchema(meta) ==
    /\ Len(CodeUnits[meta.name]) >= 1
    /\ Len(CodeUnits[meta.name]) <= 30
    /\ IsUuid(meta.creatorId)
    /\ IsDatetime(meta.createdAt)
    /\ gridSizeSchema(meta.gridSize)
    /\ difficultySchema(meta.difficulty)
    /\ IntBetween(meta.targetLines, 1, 20)
    /\ IntBetween(meta.maxMoves, 1, 100)

levelDataSchema(data) ==
    /\ data.version = JSInt(1)
    /\ levelMetaSchema(data.meta)
    /\ data.grid.cells.isArray
    /\ \A i \in 1..Len(data.grid.cells.items) : gridCellSchema(data.grid.cells.items[i])
    /\ IntAtLeast(data.validation.minMoves, 0)

createLevelSchema(body) ==
    /\ Len(CodeUnits[body.name]) >= 1
    /\ Len(CodeUnits[body.name]) <= 30
    /\ gridSizeSchema(body.gridSize)
    /\ difficultySchema(body.difficulty)
    /\ IntBetween(body.targetLines, 1, 20)
    /\ IntBetween(body.maxMoves, 1, 100)
    /\ levelDataSchema(body.levelData)

checkGridBounds(cells, gridSize) ==
    \A i \in 1..Len(cells) :
        ~(\/ LessThan(cells[i].r, JSInt(0))
          \/ ~LessThan(cells[i].r, JSInt(gridSize))
          \/ LessThan(cells[i].c, JSInt(0))
          \/ ~LessThan(cells[i].c, JSInt(gridSize)))

hasDuplicatePositions(cells) ==
    \E i, j \in 1..Len(cells) : i < j /\ cells[i].r = cells[j].r /\ cells[i].c = cells[j].c

\* TRUE when validateLevelData returns, FALSE when it throws ValidationError
validateLevelData(data) ==
    /\ data.version = JSInt(1)
    /\ Len(CodeUnits[data.meta.name]) # 0
    /\ ~(Len(CodeUnits[data.meta.name]) > 30)
    /\ data.meta.gridSize \in {6, 8, 10}
    /\ data.meta.difficulty \in {"easy", "medium", "hard", "expert"}
    /\ IsNumber(data.meta.targetLines)
    /\ ~LessThan(data.meta.targetLines, JSInt(1))
    /\ ~GreaterThan(data.meta.targetLines, JSInt(20))
    /\ IsNumber(data.meta.maxMoves)
    /\ ~LessThan(data.meta.maxMoves, JSInt(1))
    /\ ~GreaterThan(data.meta.maxMoves, JSInt(100))
    /\ data.grid.cells.isArray
    /\ \A i \in 1..Len(data.grid.cells.items) :
           LET c == data.grid.cells.items[i]
           IN  /\ IsNumber(c.r) /\ IsNumber(c.c) /\ IsNumber(c.color)
               /\ ~(LessThan(c.color, JSInt(0)) \/ GreaterThan(c.color, JSInt(7)))
    /\ checkGridBounds(data.grid.cells.items, data.meta.gridSize)
    /\ ~hasDuplicatePositions(data.grid.cells.items)
    /\ IsNumber(data.validation.minMoves)

\* POST /api/levels: the body passes the schema, then validateLevelData
CreateLevelAccepts(body) == createLevelSchema(body) /\ validateLevelData(body.levelData)

\* the index of a colour in the palette, as a number; null for a name that
\* is not in the palette
ColorIndex(color) ==
    IF \E i \in 1..Len(BLOCK_COLORS) : BLOCK_COLORS[i] = color
    THEN JSInt((CHOOSE i \in 1..Len(BLOCK_COLORS) : BLOCK_COLORS[i] = color) - 1)
    ELSE JSNull

\* the request body that carries a level record with metadata to the
\* backend: targetMoves travels as maxMoves, row and col as r and c, a colour
\* as its palette index
CreateRequestOf(levelData) ==
    LET mt == levelData.meta[1]
    IN  [name        |-> mt.name,
         gridSize    |-> levelData.gridSize,
         difficulty  |-> mt.difficulty,
         targetLines |-> mt.targetLines,
         maxMoves    |-> mt.targetMoves,
         levelData   |->
             [version    |-> levelData.version,
              meta       |-> [name        |-> mt.name,
                              creatorId   |-> mt.creatorId,
                              createdAt   |-> "2026-06-15T12:30:45.500Z",
                              gridSize    |-> levelData.gridSize,
                              difficulty  |-> mt.difficulty,
                              targetLines |-> mt.targetLines,
                              maxMoves    |-> mt.targetMoves,
                              thumbnail   |-> ""],
              grid       |-> [cells |->
                                 [isArray |-> levelData.cells.isArray,
                                  items   |-> [i \in 1..Len(levelData.cells.items) |->
                                                 [r     |-> levelData.cells.items[i].row,
                                                  c     |-> levelData.cells.items[i].col,
                                                  color |-> ColorIndex(levelData.cells.items[i].color)]]]],
              validation |-> [isSolvable |-> TRUE, minMoves |-> JSInt(0), checksum |-> ""]]]

(***************************************************************************)
(* useGameStore.ts: the game store of the mobile app.  A field that is     *)
(* number | null holds <<>> for null and <<n>> for the number n.  The      *)
(* helpers the store imports from @/engine/GridLogic and                   *)
(* @/engine/GameEngine under names the engine files do not export          *)
(* (generatePieces, placePieceOnGrid, findAndClearLines, checkGameOver,    *)
(* calculatePlacementScore, checkLevelComplete) are modelled on the        *)
(* engine's rules as the specification states them.                        *)
(***************************************************************************)

DEFAULT_GRID_SIZE == 8

initialState ==
    [grid               |-> createEmptyGrid(DEFAULT_GRID_SIZE),
     gridSize           |-> DEFAULT_GRID_SIZE,
     currentPieces      |-> <<>>,
     selectedPieceIndex |-> <<>>,
     score              |-> 0,
     combo              |-> 0,
     movesLeft          |-> <<>>,
     targetLines        |-> <<>>,
     linesCleared       |-> 0,
     isGameOver         |-> FALSE,
     isLevelComplete    |-> FALSE]

\* the loop of buildGridFromLevelData: a cell inside the grid is set to the
\* palette colour of its index, to null when the palette has no such index
RECURSIVE BuildCells(_, _, _)
BuildCells(grid, gridSize, cells) ==
    IF cells = <<>> THEN grid
    ELSE LET cell == Head(cells)
             next == IF /\ cell.r >= 0 /\ cell.r < gridSize
                        /\ cell.c >= 0 /\ cell.c < gridSize
                     THEN [grid EXCEPT ![cell.r + 1][cell.c + 1] =
                              IF cell.color \in 0..(Len(BLOCK_COLORS) - 1)
                              THEN BLOCK_COLORS[cell.color + 1]
                              ELSE Null]
                     ELSE grid
         IN  BuildCells(next, gridSize, Tail(cells))

buildGridFromLevelData(levelData, gridSize) ==
    BuildCells(createEmptyGrid(gridSize), gridSize, levelData.grid.cells)

\* generatePieces: a drawn batch as the store's pieces, none of them placed
generatePieces(randomPieces) ==
    [i \in 1..Len(randomPieces) |->
        [definition |-> randomPieces[i].definition,
         color      |-> randomPieces[i].color,
         isPlaced   |-> FALSE]]

\* levelData is <<>> (the argument left out) or <<data>>
initGame(gridSize, levelData, randomPieces) ==
    [grid               |-> IF levelData # <<>>
                            THEN buildGridFromLevelData(levelData[1], gridSize)
                            ELSE createEmptyGrid(gridSize),
     gridSize           |-> gridSize,
     currentPieces      |-> generatePieces(randomPieces),
     selectedPieceIndex |-> <<>>,
     score              |-> 0,
     combo              |-> 0,
     movesLeft          |-> IF levelData # <<>> THEN <<levelData[1].meta.maxMoves>> ELSE <<>>,
     targetLines        |-> IF levelData # <<>> THEN <<levelData[1].meta.targetLines>> ELSE <<>>,
     linesCleared       |-> 0,
     isGameOver         |-> FALSE,
     isLevelComplete    |-> FALSE]

placePieceOnGrid(grid, piece, row, col) ==
    placePiece(grid, ShapeOf(piece), row, col, piece.color)

findAndClearLines(grid, gridSize) ==
    LET completed == findCompletedLines(grid)
    IN  [grid         |-> clearLines(grid, completed.rows, completed.cols),
         linesCleared |-> Len(completed.rows) + Len(completed.cols)]

\* the engine's scoring rule is stated for cells; the store hands over the
\* lines of the turn, which stand for the amount cleared here
calculatePlacementScore(piece, newLines, combo) == calculateScore(newLines, combo)

checkLevelComplete(totalLinesCleared, targetLines) ==
    targetLines # <<>> /\ totalLinesCleared >= targetLines[1]

\* no piece that is still to be placed fits anywhere
checkGameOver(grid, pieces) ==
    LET left == SelectSeq(pieces, LAMBDA p : ~p.isPlaced)
    IN  ~canAnyPieceFit(grid, [i \in 1..Len(left) |-> [shape |-> ShapeOf(left[i])]])

\* the combo of a placement, were it derived from the lines of the turn as
\* the engine's reducer does
ComboAfterPerTurn(combo, newLines) == calculateCombo(newLines)

\* step 3 of placePiece: the streak counter
ComboAfter(combo, newLines) == IF newLines > 0 THEN combo + 1 ELSE 0

\* the two early returns of placePiece: no such piece or the piece already
\* placed, and the piece does not fit
PlacePieceReturnsEarly(st, pieceIndex, row, col) ==
    \/ pieceIndex < 0
    \/ pieceIndex >= Len(st.currentPieces)
    \/ st.currentPieces[pieceIndex + 1].isPlaced
    \/ ~canPlacePiece(st.grid, ShapeOf(st.currentPieces[pieceIndex + 1]), row, col)

\* placePiece of the store; fresh is the batch generatePieces returns when
\* the refill calls it
useGameStore_placePiece(st, pieceIndex, row, col, fresh) ==
    IF PlacePieceReturnsEarly(st, pieceIndex, row, col) THEN st
    ELSE LET piece == st.currentPieces[pieceIndex + 1]
             gridAfterPlace == placePieceOnGrid(st.grid, piece, row, col)
             cleared == findAndClearLines(gridAfterPlace, st.gridSize)
             newLines == cleared.linesCleared
             combo == ComboAfter(st.combo, newLines)
             pointsEarned == calculatePlacementScore(piece, newLines, combo)
             totalLinesCleared == st.linesCleared + newLines
             updatedPieces == [i \in 1..Len(st.currentPieces) |->
                                  IF i = pieceIndex + 1
                                  THEN [st.currentPieces[i] EXCEPT !.isPlaced = TRUE]
                                  ELSE st.currentPieces[i]]
             movesLeft == IF st.movesLeft # <<>>
                          THEN <<Max(st.movesLeft[1] - 1, 0)>>
                          ELSE <<>>
             allPlaced == \A i \in 1..Len(updatedPieces) : updatedPieces[i].isPlaced
             nextPieces == IF allPlaced THEN generatePieces(fresh) ELSE updatedPieces
             isLevelComplete == checkLevelComplete(totalLinesCleared, st.targetLines)
             isGameOver == /\ ~isLevelComplete
                           /\ \/ movesLeft = <<0>>
                              \/ checkGameOver(cleared.grid, nextPieces)
         IN  [st EXCEPT !.grid = cleared.grid,
                        !.currentPieces = nextPieces,
                        !.selectedPieceIndex = <<>>,
                        !.score = st.score + pointsEarned,
                        !.combo = combo,
                        !.movesLeft = movesLeft,
                        !.linesCleared = totalLinesCleared,
                        !.isGameOver = isGameOver,
                        !.isLevelComplete = isLevelComplete]

selectPiece(st, index) == [st EXCEPT !.selectedPieceIndex = index]

resetGame == [initialState EXCEPT !.grid = createEmptyGrid(DEFAULT_GRID_SIZE)]

\* the moves granted when the player continues a move-limited game
CONTINUE_MOVES == 5

continueAfterGameOver(st, randomPieces) ==
    [st EXCEPT !.currentPieces = generatePieces(randomPieces),
               !.selectedPieceIndex = <<>>,
               !.isGameOver = FALSE,
               !.movesLeft = IF st.movesLeft # <<>> THEN <<CONTINUE_MOVES>> ELSE <<>>]

(***************************************************************************)
(* rewards.routes.ts and the reward engine: the daily login reward.  Time  *)
(* is counted in hours; a Date | null holds <<>> for null and <<t>> for    *)
(* the time t.                                                             *)
(***************************************************************************)

DAILY_REWARD_COINS == 25

INITIAL_COINS == 100

\* 24 * 60 * 60 * 1000 milliseconds, in hours
twentyFourHours == 24

\* canClaimDaily, were a claim allowed from the hour after the last one
canClaimDailyAnyLater(lastClaim, now) ==
    IF lastClaim = <<>> THEN TRUE
    ELSE now - lastClaim[1] >= 1

\* now is the value of Date.now() when the function runs
canClaimDaily(lastClaim, now) ==
    IF lastClaim = <<>> THEN TRUE
    ELSE now - lastClaim[1] >= twentyFourHours

calculateDailyReward(user) ==
    LET baseReward == DAILY_REWARD_COINS
    IN  IF user.isPremium THEN baseReward * 2 ELSE baseReward

\* the users table of the model: one account
UserIds == {"u1"}

\* ids a request may carry: the accounts, and one that has no row
RequestUserIds == UserIds \cup {"nobody"}

InitialUsers ==
    [id \in UserIds |-> [id |-> id, isPremium |-> FALSE, coins |-> INITIAL_COINS]]

\* the database before any claim
InitialDb == [users |-> InitialUsers, rewards |-> <<>>]

\* the same with premium accounts
PremiumDb ==
    [users |-> [id \in UserIds |-> [InitialUsers[id] EXCEPT !.isPremium = TRUE]],
     rewards |-> <<>>]

\* select createdAt from rewards where userId and type match, newest first,
\* limit 1: <<>> when there is no such row
LastClaimOf(rewards, userId) ==
    LET mine == {i \in 1..Len(rewards) :
                    rewards[i].userId = userId /\ rewards[i].type = "daily_login"}
    IN  IF mine = {} THEN <<>>
        ELSE <<rewards[CHOOSE i \in mine :
                   \A j \in mine : rewards[j].createdAt <= rewards[i].createdAt].createdAt>>

\* the requests the server handles at a time
Requests == {1, 2}

\* a request slot nothing has arrived on
IdleRequest ==
    [pc |-> "idle", userId |-> "nobody", user |-> <<>>, lastClaim |-> <<>>,
     rewardAmount |-> 0, reward |-> <<>>, status |-> 0, newBalance |-> 0]

(***************************************************************************)
(* Sessions: the levels the model plays and the calls it makes.            *)
(***************************************************************************)

\* the cap on movesMade in endless mode, whose sessions are otherwise unbounded
MaxMoves == 1

\* the positions of a set, listed in row-major order
RECURSIVE RowMajor(_)
RowMajor(S) ==
    IF S = {} THEN <<>>
    ELSE LET m == CHOOSE x \in S : \A y \in S :
                      x[1] * GridSize + x[2] <= y[1] * GridSize + y[2]
         IN  <<m>> \o RowMajor(S \ {m})

PrefilledAt(positions, color) ==
    LET ps == RowMajor(positions)
    IN  [i \in 1..Len(ps) |-> [row |-> ps[i][1], col |-> ps[i][2], color |-> color]]

AllPositions == (0..(GridSize - 1)) \X (0..(GridSize - 1))

\* row 0 filled at columns 0..4 and nothing else; one listed cell lies
\* outside the grid
RowZeroCells ==
    PrefilledAt({<<0, c>> : c \in 0..4}, "blue")
        \o << [row |-> GridSize, col |-> 0, color |-> "green"] >>

\* rows 0..3 have one empty cell each, rows 4 and 5 two; row 0 is filled at
\* columns 0..4
StairHoles ==
    {<<0, 5>>, <<1, 4>>, <<2, 0>>, <<3, 1>>, <<4, 2>>, <<4, 5>>, <<5, 3>>, <<5, 4>>}

StairCells == PrefilledAt(AllPositions \ StairHoles, "blue")

\* every row and every column has exactly one empty cell
CrossHoles == {<<0, 5>>, <<1, 0>>, <<2, 1>>, <<3, 2>>, <<4, 3>>, <<5, 4>>}

CrossCells == PrefilledAt(AllPositions \ CrossHoles, "blue")

\* rows and columns 0..2 have two empty cells each, rows and columns 3..5 one
RingHoles ==
    {<<0, 0>>, <<0, 1>>, <<1, 1>>, <<1, 2>>, <<2, 2>>, <<2, 0>>,
     <<3, 3>>, <<4, 4>>, <<5, 5>>}

RingCells == PrefilledAt(AllPositions \ RingHoles, "blue")

\* a single empty cell: five rows and five columns are complete from the start
OneHoleCells == PrefilledAt(AllPositions \ {<<0, 5>>}, "blue")

\* rows and columns 3..5 are complete; the 3 x 3 block at rows and columns
\* 0..2 is empty
BlockCells == PrefilledAt(AllPositions \ ((0..2) \X (0..2)), "blue")

LevelData(cells, targetLines, targetMoves, targetScore, name) ==
    [gridSize       |-> GridSize,
     prefilledCells |-> cells,
     targetLines    |-> targetLines,
     targetMoves    |-> targetMoves,
     targetScore    |-> targetScore,
     name           |-> name]

\* the levels played
Levels ==
    {LevelData(RowZeroCells, 1, 1, 100, "row-zero"),
     LevelData(StairCells, 2, 2, 100, "stair"),
     LevelData(CrossCells, 2, 3, 400, "cross"),
     LevelData(RingCells, 1, 4, 80, "ring"),
     LevelData(OneHoleCells, 12, 2, 0, "one-hole"),
     LevelData(BlockCells, 9, 1, 0, "block")}

\* a level played, as the record checkSolvability reads
SerializedOf(levelData) ==
    [gridSize |-> levelData.gridSize,
     cells    |-> levelData.prefilledCells,
     meta     |-> [targetLines |-> levelData.targetLines,
                   targetMoves |-> levelData.targetMoves]]

\* the arguments of the calls made: every anchor from one step outside the
\* grid on each side, for each index of the piece set; and an index below and
\* one above the piece set
Coords == -1..GridSize

Calls ==
    ((0..2) \X Coords \X Coords) \cup ({-1, 3} \X {0, GridSize} \X {0})

NoDraw == <<>>

NoCall == [success |-> FALSE, failReason |-> "none", input |-> <<>>]

NoMove == [pieceIndex |-> -1, row |-> -1, col |-> -1]

\* no level has been serialized
NoLevel == [level |-> <<>>, changed |-> "none", verified |-> <<>>]

\* no function has been applied on its own yet
NoProbe == [op |-> "none"]

\* TRUE when the call reaches the refill, which is where the handler draws
DrawsFresh(st, pieceIndex, row, col) ==
    LET res == handlePiecePlacement(st, pieceIndex, row, col, NoDraw)
    IN  res.success /\ res.state.pieces = NoDraw

\* what getRandomPieces(3) may return to the call, NoDraw when it is not called
Draws(st, pieceIndex, row, col) ==
    IF DrawsFresh(st, pieceIndex, row, col) THEN getRandomPieces(3) ELSE {NoDraw}

\* the backend before any request has arrived
ServerIdle ==
    /\ db = InitialDb
    /\ requests = [r \in Requests |-> IdleRequest]
    /\ clock = 0

Init ==
    /\ \E levelData \in {<<>>} \cup {<<l>> : l \in Levels} :
       \E randomPieces \in getRandomPieces(3) :
           state = createGameState(GridSize, levelData, randomPieces)
    /\ last = NoCall
    /\ move = NoMove
    /\ codec = NoLevel
    /\ probe = NoProbe
    /\ store = initialState
    /\ ServerIdle

\* One call of handlePiecePlacement on the current state; the caller keeps
\* the state it returns. last is the result of the latest call with the
\* state it was given, move the arguments of the latest accepted call.
Place(pieceIndex, row, col) ==
    /\ state.mode = "endless" => state.movesMade < MaxMoves
    /\ \E fresh \in Draws(state, pieceIndex, row, col) :
           LET res == handlePiecePlacement(state, pieceIndex, row, col, fresh)
           IN  /\ state' = res.state
               /\ last' = [success |-> res.success, failReason |-> res.failReason,
                           input |-> <<state>>]
               /\ move' = IF res.success
                          THEN [pieceIndex |-> pieceIndex, row |-> row, col |-> col]
                          ELSE move
               /\ UNCHANGED <<codec, probe, store, db, requests, clock>>

Next == \E call \in Calls : Place(call[1], call[2], call[3])

Spec == Init /\ [][Next]_vars

(***************************************************************************)
(* The level codec: a level is serialized, may then have one field changed *)
(* by whoever holds the record, the stored checksum kept, and is verified. *)
(* codec.level is <<>> or <<the record>>, codec.changed names the field    *)
(* changed since serializeLevel, codec.verified is <<>> or <<the result of *)
(* verifyChecksum>>. No play session is open meanwhile.                    *)
(***************************************************************************)

\* the grids serialized: empty, one cell, two cells
EditorGrids ==
    {ApplyPrefilled(createEmptyGrid(GridSize), GridSize, cells) :
        cells \in {<<>>,
                   << [row |-> 0, col |-> 0, color |-> "red"] >>,
                   << [row |-> 0, col |-> 0, color |-> "red"],
                      [row |-> 2, col |-> 3, color |-> "blue"] >>}}

Names == {"Spiral", "Say \"hi\""}

Creators == {"user-1", "user-2"}

Difficulties == {"easy", "standard", "hard"}

Timestamps == {"2026-01-01T00:00:00.000Z", "2026-06-15T12:30:45.500Z"}

\* the metadata records serialized
Metas ==
    {[name |-> "Spiral", creatorId |-> "user-1", targetLines |-> 3,
      targetMoves |-> 20, targetScore |-> 500, difficulty |-> "easy"],
     [name |-> "Say \"hi\"", creatorId |-> "user-2", targetLines |-> 12,
      targetMoves |-> 999, targetScore |-> 0, difficulty |-> "hard"]}

\* a value of S other than x
Other(x, S) == CHOOSE y \in S : y # x

\* the records that differ from a level in the value of one field other
\* than checksum, each with the name of that field
Changes(level) ==
    {[field |-> "version", level |-> [level EXCEPT !.version = @ + 1]],
     [field |-> "gridSize", level |-> [level EXCEPT !.gridSize = Other(@, {6, 8, 10})]],
     [field |-> "createdAt", level |-> [level EXCEPT !.createdAt = Other(@, Timestamps)]],
     [field |-> "meta.name", level |-> [level EXCEPT !.meta.name = Other(@, Names)]],
     [field |-> "meta.creatorId",
      level |-> [level EXCEPT !.meta.creatorId = Other(@, Creators)]],
     [field |-> "meta.targetLines", level |-> [level EXCEPT !.meta.targetLines = @ + 1]],
     [field |-> "meta.targetMoves", level |-> [level EXCEPT !.meta.targetMoves = @ - 1]],
     [field |-> "meta.targetScore", level |-> [level EXCEPT !.meta.targetScore = @ + 100]],
     [field |-> "meta.difficulty",
      level |-> [level EXCEPT !.meta.difficulty = Other(@, Difficulties)]],
     [field |-> "cells",
      level |-> [level EXCEPT !.cells =
                    Append(@, [row |-> 5, col |-> 5, color |-> "green"])]]}
    \cup {[field |-> "cells",
           level |-> [level EXCEPT !.cells = SubSeq(@, 1, Len(@) - 1)]] :
             i \in {Len(level.cells)} \ {0}}
    \cup {[field |-> "cell.row",
           level |-> [level EXCEPT !.cells[i].row = (@ + 1) % level.gridSize]] :
             i \in 1..Len(level.cells)}
    \cup {[field |-> "cell.col",
           level |-> [level EXCEPT !.cells[i].col = (@ + 1) % level.gridSize]] :
             i \in 1..Len(level.cells)}
    \cup {[field |-> "cell.color",
           level |-> [level EXCEPT !.cells[i].color = Other(@, {"red", "pink"})]] :
             i \in 1..Len(level.cells)}

InitCodec ==
    /\ state = Null
    /\ last = NoCall
    /\ move = NoMove
    /\ codec = NoLevel
    /\ probe = NoProbe
    /\ store = initialState
    /\ ServerIdle

\* serializeLevel(grid, meta) at the time now
Serialize(grid, meta, now) ==
    /\ codec.level = <<>>
    /\ codec' = [level |-> <<serializeLevel(grid, meta, now)>>, changed |-> "none",
                 verified |-> <<>>]
    /\ UNCHANGED <<state, last, move, probe, store, db, requests, clock>>

\* one field of the record is given another value; the checksum stays
Tamper ==
    /\ codec.level # <<>>
    /\ codec.changed = "none"
    /\ codec.verified = <<>>
    /\ \E change \in Changes(codec.level[1]) :
           codec' = [codec EXCEPT !.level = <<change.level>>, !.changed = change.field]
    /\ UNCHANGED <<state, last, move, probe, store, db, requests, clock>>

\* verifyChecksum on the record held
Verify ==
    /\ codec.level # <<>>
    /\ codec.verified = <<>>
    /\ codec' = [codec EXCEPT !.verified = <<verifyChecksum(codec.level[1])>>]
    /\ UNCHANGED <<state, last, move, probe, store, db, requests, clock>>

NextCodec ==
    \/ \E grid \in EditorGrids : \E meta \in Metas : \E now \in Timestamps :
           Serialize(grid, meta, now)
    \/ Tamper
    \/ Verify

SpecCodec == InitCodec /\ [][NextCodec]_vars

(***************************************************************************)
(* A grid taken through the codec: serializeLevel, then deserializeLevel   *)
(* on the record it returned. probe holds the grid and metadata given, the *)
(* record and the result.                                                  *)
(***************************************************************************)

\* the dimensions a grid can have
GridSizes == {6, 8, 10}

\* position k of the row-major walk of a grid of dimension d, in colour i
\* of the palette
WalkCell(d, k, i) ==
    [row |-> k \div d, col |-> k % d, color |-> BLOCK_COLORS[(i % Len(BLOCK_COLORS)) + 1]]

\* the cells drawn in the editor on a grid of dimension d
DrawnCells(d) ==
    {<<>>,
     <<WalkCell(d, 0, 0)>>,
     <<WalkCell(d, d * d - 1, 7)>>,
     <<WalkCell(d, 0, 0), WalkCell(d, 2 * d + 3, 1)>>,
     [i \in 1..d |-> WalkCell(d, (i - 1) * d + (i - 1), i)],
     [i \in 1..d |-> WalkCell(d, i - 1, 2)],
     [i \in 1..d |-> WalkCell(d, i * d - 1, 3)],
     [i \in 1..8 |-> WalkCell(d, i + 1, i - 1)],
     [i \in 1..36 |-> WalkCell(d, i - 1, i)]}

RoundTripGrids ==
    UNION {{ApplyPrefilled(createEmptyGrid(d), d, cells) : cells \in DrawnCells(d)} :
              d \in GridSizes}

RoundTrip(grid, meta, now) ==
    /\ probe.op = "none"
    /\ LET level == serializeLevel(grid, meta, now)
       IN  probe' = [op |-> "roundTrip", grid |-> grid, meta |-> meta, level |-> level,
                     result |-> deserializeLevel(level)]
    /\ UNCHANGED <<state, last, move, codec, store, db, requests, clock>>

NextRoundTrip ==
    \E grid \in RoundTripGrids : \E meta \in Metas : \E now \in Timestamps :
        RoundTrip(grid, meta, now)

SpecRoundTrip == InitCodec /\ [][NextRoundTrip]_vars

(***************************************************************************)
(* The digest applied on its own: sha256Simple to a string, and its        *)
(* padding step to the bytes of a message. probe holds the argument and    *)
(* the result.                                                             *)
(***************************************************************************)

\* the longest message padded, in bytes: a little over two blocks
MaxBytes == 130

\* a message of n bytes, no two neighbours equal
BytesOfLength(n) == [i \in 1..n |-> (i * 37) % 256]

\* the strings digested, as code units: "", "abc", and runs of "a" that end
\* just before, at and after the room the length needs in a block
DigestMessages ==
    {<<>>, <<97, 98, 99>>} \cup {[i \in 1..n |-> 97] : n \in {1, 55, 56, 64}}

Pad(msgBytes) ==
    /\ probe.op = "none"
    /\ probe' = [op |-> "pad", message |-> msgBytes, result |-> PadMessage(msgBytes)]
    /\ UNCHANGED <<state, last, move, codec, store, db, requests, clock>>

Digest(message) ==
    /\ probe.op = "none"
    /\ probe' = [op |-> "sha256Simple", message |-> message,
                 result |-> sha256Simple(message)]
    /\ UNCHANGED <<state, last, move, codec, store, db, requests, clock>>

NextDigest ==
    \/ \E n \in 0..MaxBytes : Pad(BytesOfLength(n))
    \/ \E message \in DigestMessages : Digest(message)

SpecDigest == InitCodec /\ [][NextDigest]_vars

(***************************************************************************)
(* The level checks applied on their own: a level record is handed to      *)
(* checkSolvability, to validateLevel, or to the backend's creation route. *)
(* probe names the function applied, the level given and the result. No    *)
(* play session is open and no record is being encoded meanwhile.          *)
(***************************************************************************)

FullCells == PrefilledAt(AllPositions, "blue")

\* the dimensions of the levels handed to checkSolvability; the function
\* does not check the dimension, and dimension 0 gives a grid with no cells
SolvabilitySizes == {0, GridSize}

SolvabilityLevels ==
    {[gridSize |-> d, cells |-> cells,
      meta |-> [targetLines |-> targetLines, targetMoves |-> targetMoves]] :
        d \in SolvabilitySizes,
        cells \in {<<>>, RowZeroCells, CrossCells, OneHoleCells, BlockCells, FullCells},
        targetLines \in {0, 1, 9, 11, 12, 13},
        targetMoves \in {1, 2}}

\* the level records handed to validateLevel: a record that passes, and
\* records that break one rule or several
SubmittedCell(row, col, color) == [row |-> row, col |-> col, color |-> color]

SubmittedCells ==
    {[isArray |-> FALSE, items |-> <<>>],
     [isArray |-> TRUE, items |-> <<>>],
     [isArray |-> TRUE, items |-> <<SubmittedCell(JSInt(0), JSInt(0), "red"),
                                    SubmittedCell(JSInt(1), JSInt(2), "blue")>>],
     [isArray |-> TRUE, items |-> <<SubmittedCell(JSInt(0), JSInt(0), "red"),
                                    SubmittedCell(JSInt(0), JSInt(0), "blue")>>],
     [isArray |-> TRUE, items |-> <<SubmittedCell(JSInt(GridSize), JSInt(0), "red")>>],
     [isArray |-> TRUE, items |-> <<SubmittedCell(JSHalf(1), JSNull, "teal"),
                                    SubmittedCell(JSInt(-1), JSInt(10), "green")>>],
     [isArray |-> TRUE,
      items |-> [i \in 1..Len(FullCells) |->
                    SubmittedCell(JSInt(FullCells[i].row), JSInt(FullCells[i].col),
                                  FullCells[i].color)]]}

PassingMeta ==
    [name        |-> "Spiral",
     creatorId   |-> "3f2b8c1e-5d4a-4e6f-9a7b-0c1d2e3f4a5b",
     targetLines |-> JSInt(3),
     targetMoves |-> JSInt(10),
     targetScore |-> JSInt(100),
     difficulty  |-> "easy",
     description |-> <<>>]

SubmittedMetas ==
    {<<>>}
    \cup {<<[PassingMeta EXCEPT !.name = name]>> :
             name \in {"Spiral", "", "   ",
                       "Level name of 30 characters xx",
                       "Level name of 31 characters xxx",
                       "Level name of 64 characters xxxxxxxxxxxxxxxxxxxxxxxxxxxxxxxxxxxx",
                       "Level name of 65 characters xxxxxxxxxxxxxxxxxxxxxxxxxxxxxxxxxxxxx"}}
    \cup {<<[PassingMeta EXCEPT !.creatorId = creatorId]>> : creatorId \in {"", "user-1"}}
    \cup {<<[PassingMeta EXCEPT !.targetLines = targetLines]>> :
             targetLines \in {JSNull, JSHalf(2), JSInt(0), JSInt(1), JSInt(13), JSInt(20),
                              JSInt(21)}}
    \cup {<<[PassingMeta EXCEPT !.targetMoves = targetMoves]>> :
             targetMoves \in {JSNull, JSHalf(2), JSInt(0), JSInt(1), JSInt(100), JSInt(101),
                              JSInt(999), JSInt(1000)}}
    \cup {<<[PassingMeta EXCEPT !.targetScore = targetScore]>> :
             targetScore \in {JSNull, JSHalf(0), JSInt(-1), JSInt(0)}}
    \cup {<<[PassingMeta EXCEPT !.difficulty = difficulty]>> :
             difficulty \in {"medium", "hard", "expert", "standard"}}
    \cup {<<[PassingMeta EXCEPT !.description = description]>> :
             description \in {<<0>>, <<256>>, <<257>>}}
    \cup {<<[name        |-> "   ",
             creatorId   |-> "",
             targetLines |-> JSInt(0),
             targetMoves |-> JSInt(1000),
             targetScore |-> JSInt(-1),
             difficulty  |-> "standard",
             description |-> <<257>>]>>}

SubmittedLevels ==
    {[version |-> version, gridSize |-> gridSize, cells |-> cells, meta |-> meta] :
        version \in {JSNull, JSInt(0), JSInt(1), JSInt(2), JSHalf(1)},
        gridSize \in {GridSize, GridSize + 1},
        cells \in SubmittedCells,
        meta \in SubmittedMetas}

InitLevel ==
    /\ state = Null
    /\ last = NoCall
    /\ move = NoMove
    /\ codec = NoLevel
    /\ probe = NoProbe
    /\ store = initialState
    /\ ServerIdle

CheckSolvability(levelData) ==
    /\ probe.op = "none"
    /\ probe' = [op |-> "checkSolvability", level |-> levelData,
                 result |-> checkSolvability(levelData)]
    /\ UNCHANGED <<state, last, move, codec, store, db, requests, clock>>

ValidateLevel(levelData) ==
    /\ probe.op = "none"
    /\ probe' = [op |-> "validateLevel", level |-> levelData,
                 result |-> validateLevel(levelData)]
    /\ UNCHANGED <<state, last, move, codec, store, db, requests, clock>>

\* the level is sent to the backend's creation route
CreateLevel(levelData) ==
    /\ probe.op = "none"
    /\ levelData.meta # <<>>
    /\ probe' = [op |-> "createLevel", level |-> levelData,
                 result |-> [accepted |-> CreateLevelAccepts(CreateRequestOf(levelData))]]
    /\ UNCHANGED <<state, last, move, codec, store, db, requests, clock>>

NextLevel ==
    \/ \E levelData \in SolvabilityLevels : CheckSolvability(levelData)
    \/ \E levelData \in SubmittedLevels : ValidateLevel(levelData)
    \/ \E levelData \in SubmittedLevels : CreateLevel(levelData)

SpecLevel == InitLevel /\ [][NextLevel]_vars

(***************************************************************************)
(* The grid functions applied on their own to a grid, a shape of the       *)
(* catalog and an anchor, or to a grid and lists of row and column         *)
(* indexes. probe names the function, its arguments and its result.        *)
(***************************************************************************)

\* the dimension of the larger grid probed
LargeGridSize == 8

ProbeGrids ==
    {createEmptyGrid(0), createEmptyGrid(GridSize), createEmptyGrid(LargeGridSize)}
    \cup {ApplyPrefilled(createEmptyGrid(GridSize), GridSize, cells) :
             cells \in {RowZeroCells, StairCells, CrossCells, RingCells, OneHoleCells,
                        BlockCells, FullCells}}

CatalogShapes == {PIECE_DEFINITIONS[i].shape : i \in 1..Len(PIECE_DEFINITIONS)}

\* anchors from one step outside the grid on each side
ProbeAnchors(grid) == (-1)..Len(grid)

\* lists of pieces as canAnyPieceFit reads them
ProbePieceLists ==
    {<<>>,
     <<[shape |-> SHAPE_1x1]>>,
     <<[shape |-> SHAPE_3x3]>>,
     <<[shape |-> SHAPE_1x5]>>,
     <<[shape |-> SHAPE_2x2]>>,
     <<[shape |-> SHAPE_3x3], [shape |-> SHAPE_1x1]>>,
     <<[shape |-> SHAPE_3x3], [shape |-> SHAPE_5x1], [shape |-> SHAPE_1x2]>>,
     <<[shape |-> SHAPE_2x1], [shape |-> SHAPE_1x2]>>}

\* lists of row or column indexes; two of them list an index twice
IndexLists == {<<>>, <<0>>, <<0, 1>>, <<1, 3>>, <<3, 4, 5>>, <<5, 2>>, <<0, 0>>, <<4, 2, 4>>}

InRange(grid, indexes) == \A i \in 1..Len(indexes) : indexes[i] \in 0..(Len(grid) - 1)

InitGrid ==
    /\ state = Null
    /\ last = NoCall
    /\ move = NoMove
    /\ codec = NoLevel
    /\ probe = NoProbe
    /\ store = initialState
    /\ ServerIdle

CanPlacePiece(grid, shape, row, col) ==
    /\ probe.op = "none"
    /\ probe' = [op |-> "canPlacePiece", grid |-> grid, shape |-> shape,
                 row |-> row, col |-> col,
                 result |-> canPlacePiece(grid, shape, row, col)]
    /\ UNCHANGED <<state, last, move, codec, store, db, requests, clock>>

CanAnyPieceFit(grid, pieces) ==
    /\ probe.op = "none"
    /\ probe' = [op |-> "canAnyPieceFit", grid |-> grid, pieces |-> pieces,
                 result |-> canAnyPieceFit(grid, pieces)]
    /\ UNCHANGED <<state, last, move, codec, store, db, requests, clock>>

FindCompletedLines(grid) ==
    /\ probe.op = "none"
    /\ probe' = [op |-> "findCompletedLines", grid |-> grid,
                 result |-> findCompletedLines(grid)]
    /\ UNCHANGED <<state, last, move, codec, store, db, requests, clock>>

\* the indexes listed are indexes of the grid, as those findCompletedLines
\* returns are
ClearLines(grid, rows, cols) ==
    /\ probe.op = "none"
    /\ InRange(grid, rows) /\ InRange(grid, cols)
    /\ probe' = [op |-> "clearLines", grid |-> grid, rows |-> rows, cols |-> cols,
                 result |-> clearLines(grid, rows, cols)]
    /\ UNCHANGED <<state, last, move, codec, store, db, requests, clock>>

CountClearedCells(grid, rows, cols) ==
    /\ probe.op = "none"
    /\ InRange(grid, rows) /\ InRange(grid, cols)
    /\ probe' = [op |-> "countClearedCells", grid |-> grid, rows |-> rows, cols |-> cols,
                 result |-> countClearedCells(grid, rows, cols)]
    /\ UNCHANGED <<state, last, move, codec, store, db, requests, clock>>

NextGrid ==
    \/ \E grid \in ProbeGrids : \E shape \in CatalogShapes :
           \E row, col \in ProbeAnchors(grid) : CanPlacePiece(grid, shape, row, col)
    \/ \E grid \in ProbeGrids : \E pieces \in ProbePieceLists : CanAnyPieceFit(grid, pieces)
    \/ \E grid \in ProbeGrids : FindCompletedLines(grid)
    \/ \E grid \in ProbeGrids : \E rows, cols \in IndexLists : ClearLines(grid, rows, cols)
    \/ \E grid \in ProbeGrids : \E rows, cols \in IndexLists :
           CountClearedCells(grid, rows, cols)

SpecGrid == InitGrid /\ [][NextGrid]_vars

(***************************************************************************)
(* The star rating applied on its own to a score and a target score.       *)
(***************************************************************************)

RatedScores == (0..12) \cup {49, 50, 74, 75, 99, 100, 101}

RatedTargets == ((-1)..12) \cup {100}

StarRating(score, targetScore) ==
    /\ probe.op = "none"
    /\ probe' = [op |-> "calculateStarRating", score |-> score,
                 targetScore |-> targetScore,
                 result |-> calculateStarRating(score, targetScore)]
    /\ UNCHANGED <<state, last, move, codec, store, db, requests, clock>>

NextScore ==
    \E score \in RatedScores : \E targetScore \in RatedTargets :
        StarRating(score, targetScore)

SpecScore == InitGrid /\ [][NextScore]_vars

(***************************************************************************)
(* The game store in use: games are started, pieces selected and placed,   *)
(* a finished game continued or reset.  last is the latest call with the   *)
(* store it found and the number of placements made since the game began.  *)
(***************************************************************************)

\* the cap on the placements of one game, which the store does not bound
MaxPlacements == 2

\* the index of a colour in the palette
PaletteIndex(color) == (CHOOSE i \in 1..Len(BLOCK_COLORS) : BLOCK_COLORS[i] = color) - 1

\* a level played, as the LevelData the store reads: the cells as r, c and
\* palette index, the move limit as meta.maxMoves
StoreLevelOf(levelData) ==
    [version |-> 1,
     meta    |-> [name        |-> levelData.name,
                  gridSize    |-> levelData.gridSize,
                  targetLines |-> levelData.targetLines,
                  maxMoves    |-> levelData.targetMoves],
     grid    |-> [cells |-> [i \in 1..Len(levelData.prefilledCells) |->
                                [r     |-> levelData.prefilledCells[i].row,
                                 c     |-> levelData.prefilledCells[i].col,
                                 color |-> PaletteIndex(levelData.prefilledCells[i].color)]]]]

StoreLevels == {StoreLevelOf(l) : l \in {l \in Levels : l.name \in {"row-zero", "stair", "block"}}}

\* the values selectPiece is called with
Selections == {<<>>, <<1>>}

\* the anchors the store is called with: the rows and columns of the first
\* holes of the levels, and one outside the grid on each axis
StoreRows == {-1, 0, 1, 2}

StoreCols == {0, 4, 5, GridSize}

\* the arguments of the calls of placePiece: every such anchor for each
\* index of the piece set, and an index below and one above the piece set
StoreCalls == ((0..2) \X StoreRows \X StoreCols) \cup ({-1, 3} \X {0} \X {0})

NoStoreCall == [op |-> "none", input |-> <<>>, args |-> NoMove, made |-> 0]

InitStore ==
    /\ state = Null
    /\ last = NoStoreCall
    /\ move = NoMove
    /\ codec = NoLevel
    /\ probe = NoProbe
    /\ store = initialState
    /\ ServerIdle

InitGame(gridSize, levelData, randomPieces) ==
    /\ store' = initGame(gridSize, levelData, randomPieces)
    /\ last' = [op |-> "initGame", input |-> <<>>, args |-> NoMove, made |-> 0]
    /\ UNCHANGED <<state, move, codec, probe, db, requests, clock>>

\* TRUE when the call reaches the refill, which is where placePiece draws
RefillsPieces(st, pieceIndex, row, col) ==
    /\ ~PlacePieceReturnsEarly(st, pieceIndex, row, col)
    /\ \A i \in 1..Len(st.currentPieces) :
           i # pieceIndex + 1 => st.currentPieces[i].isPlaced

PlacePiece(pieceIndex, row, col) ==
    /\ last.made < MaxPlacements
    /\ \E fresh \in IF RefillsPieces(store, pieceIndex, row, col)
                    THEN getRandomPieces(3) ELSE {NoDraw} :
           store' = useGameStore_placePiece(store, pieceIndex, row, col, fresh)
    /\ last' = IF PlacePieceReturnsEarly(store, pieceIndex, row, col)
               THEN [op |-> "placePiece", input |-> <<store>>, args |-> NoMove,
                     made |-> last.made]
               ELSE [op |-> "placePiece", input |-> <<store>>,
                     args |-> [pieceIndex |-> pieceIndex, row |-> row, col |-> col],
                     made |-> last.made + 1]
    /\ UNCHANGED <<state, move, codec, probe, db, requests, clock>>

SelectPiece(index) ==
    /\ store' = selectPiece(store, index)
    /\ last' = [op |-> "selectPiece", input |-> <<>>, args |-> NoMove, made |-> last.made]
    /\ UNCHANGED <<state, move, codec, probe, db, requests, clock>>

ResetGame ==
    /\ store' = resetGame
    /\ last' = [op |-> "resetGame", input |-> <<>>, args |-> NoMove, made |-> 0]
    /\ UNCHANGED <<state, move, codec, probe, db, requests, clock>>

\* the screen offers to continue in the modal it shows over a finished game
ContinueAfterGameOver(randomPieces) ==
    /\ store.isGameOver \/ store.isLevelComplete
    /\ store' = continueAfterGameOver(store, randomPieces)
    /\ last' = [op |-> "continueAfterGameOver", input |-> <<>>, args |-> NoMove,
                made |-> last.made]
    /\ UNCHANGED <<state, move, codec, probe, db, requests, clock>>

NextStore ==
    \/ \E levelData \in {<<>>} \cup {<<l>> : l \in StoreLevels} :
       \E randomPieces \in getRandomPieces(3) :
           InitGame(GridSize, levelData, randomPieces)
    \/ \E call \in StoreCalls : PlacePiece(call[1], call[2], call[3])
    \/ \E index \in Selections : SelectPiece(index)
    \/ ResetGame
    \/ \E randomPieces \in getRandomPieces(3) : ContinueAfterGameOver(randomPieces)

SpecStore == InitStore /\ [][NextStore]_vars

(***************************************************************************)
(* The daily reward route under concurrent requests.  Each await of the    *)
(* handler is a point where another request's step may run: a request      *)
(* goes through the user select, the last-claim select with the 24 hour    *)
(* check, the reward insert and the coin update with the reply.            *)
(***************************************************************************)

\* the hours between two readings of the clock
HoursPerTick == 12

\* the number of times the clock advances
MaxTicks == 3

InitRewards ==
    /\ state = Null
    /\ last = NoCall
    /\ move = NoMove
    /\ codec = NoLevel
    /\ probe = NoProbe
    /\ store = initialState
    /\ db \in {InitialDb, PremiumDb}
    /\ requests = [r \in Requests |-> IdleRequest]
    /\ clock = 0

Tick ==
    /\ clock < MaxTicks * HoursPerTick
    /\ clock' = clock + HoursPerTick
    /\ UNCHANGED <<state, last, move, codec, probe, store, db, requests>>

\* POST /api/rewards/claim-daily arrives with the user verifyAuth set
Receive(r, userId) ==
    /\ requests[r].pc \in {"idle", "done"}
    /\ requests' = [requests EXCEPT ![r] = [IdleRequest EXCEPT !.pc = "selectUser",
                                                               !.userId = userId]]
    /\ UNCHANGED <<state, last, move, codec, probe, store, db, clock>>

\* the user select and the 404 reply
SelectUser(r) ==
    /\ requests[r].pc = "selectUser"
    /\ requests' = [requests EXCEPT ![r] =
           IF requests[r].userId \in DOMAIN db.users
           THEN [@ EXCEPT !.user = <<db.users[requests[r].userId]>>,
                          !.pc = "selectLastClaim"]
           ELSE [@ EXCEPT !.status = 404, !.pc = "done"]]
    /\ UNCHANGED <<state, last, move, codec, probe, store, db, clock>>

\* the last-claim select, canClaimDaily with the 429 reply, and the amount
SelectLastClaim(r) ==
    /\ requests[r].pc = "selectLastClaim"
    /\ LET lastClaim == LastClaimOf(db.rewards, requests[r].userId)
       IN  requests' = [requests EXCEPT ![r] =
               IF ~canClaimDaily(lastClaim, clock)
               THEN [@ EXCEPT !.lastClaim = lastClaim, !.status = 429, !.pc = "done"]
               ELSE [@ EXCEPT !.lastClaim = lastClaim,
                              !.rewardAmount = calculateDailyReward(requests[r].user[1]),
                              !.pc = "insertReward"]]
    /\ UNCHANGED <<state, last, move, codec, probe, store, db, clock>>

\* the reward insert; the row's createdAt is the time of the insert
InsertReward(r) ==
    /\ requests[r].pc = "insertReward"
    /\ LET reward == [id        |-> Len(db.rewards) + 1,
                      userId    |-> requests[r].userId,
                      type      |-> "daily_login",
                      amount    |-> requests[r].rewardAmount,
                      createdAt |-> clock]
       IN  /\ db' = [db EXCEPT !.rewards = Append(@, reward)]
           /\ requests' = [requests EXCEPT ![r] = [@ EXCEPT !.reward = <<reward>>,
                                                            !.pc = "updateCoins"]]
    /\ UNCHANGED <<state, last, move, codec, probe, store, clock>>

\* the coin update (coins = coins + amount in the database) and the reply
UpdateCoins(r) ==
    /\ requests[r].pc = "updateCoins"
    /\ db' = [db EXCEPT !.users[requests[r].userId].coins = @ + requests[r].rewardAmount]
    /\ requests' = [requests EXCEPT ![r] =
           [@ EXCEPT !.status = 200,
                     !.newBalance = requests[r].user[1].coins + requests[r].rewardAmount,
                     !.pc = "done"]]
    /\ UNCHANGED <<state, last, move, codec, probe, store, clock>>

NextRewards ==
    \/ Tick
    \/ \E r \in Requests : \E userId \in RequestUserIds : Receive(r, userId)
    \/ \E r \in Requests : SelectUser(r)
    \/ \E r \in Requests : SelectLastClaim(r)
    \/ \E r \in Requests : InsertReward(r)
    \/ \E r \in Requests : UpdateCoins(r)

SpecRewards == InitRewards /\ [][NextRewards]_vars

(***************************************************************************)
(* What the claims speak of, stated without the operators of the engine.   *)
(***************************************************************************)

\* the state the latest call was given
Input == last.input[1]

Called == last.input # <<>>

Terminal(st) == st.gameOver \/ st.levelComplete

\* the cells (row, col) a shape covers when anchored at (row, col)
Covered(shape, row, col) ==
    {<<row + q[1], col + q[2]>> :
        q \in {x \in (0..(Len(shape) - 1)) \X (0..(Len(shape[1]) - 1)) :
                  shape[x[1] + 1][x[2] + 1]}}

InGrid(grid, p) == p[1] \in 0..(Len(grid) - 1) /\ p[2] \in 0..(Len(grid) - 1)

\* the shape fits: each cell it covers is a cell of the grid and is empty
Fits(grid, shape, row, col) ==
    \A p \in Covered(shape, row, col) : InGrid(grid, p) /\ grid[p[1] + 1][p[2] + 1] = Null

FitsSomewhere(grid, shape) ==
    \E row \in 0..(Len(grid) - 1) : \E col \in 0..(Len(grid) - 1) : Fits(grid, shape, row, col)

FullRows(grid) == {r \in 0..(Len(grid) - 1) : \A c \in 1..Len(grid) : grid[r + 1][c] # Null}

FullCols(grid) == {c \in 0..(Len(grid) - 1) : \A r \in 1..Len(grid) : grid[r][c + 1] # Null}

(***************************************************************************)
(* C1. A rejected call (game_over, level_complete, invalid_piece or         *)
(* cannot_place) returns the state it was given, equal in every field, as a *)
(* result value with success = FALSE.                                       *)
(***************************************************************************)
C1_RejectionReturnsInput ==
    Called =>
        /\ last.success <=> last.failReason \notin RejectReasons
        /\ ~last.success => state = Input

\* a call rejected after the session has made progress
C1_Witness ==
    /\ Called
    /\ last.failReason = "cannot_place"
    /\ state.movesMade > 0
    /\ state.lastClear # <<>>

(***************************************************************************)
(* C2. The preconditions are checked in a fixed order: a terminal state is  *)
(* rejected first (game_over before level_complete), then a piece index     *)
(* out of range or a piece already placed gives invalid_piece, then a shape *)
(* that does not fit gives cannot_place; the call succeeds exactly when     *)
(* none applies. Stated of every call on every reachable state.             *)
(***************************************************************************)
ExpectedOutcome(st, pieceIndex, row, col) ==
    IF st.gameOver THEN "game_over"
    ELSE IF st.levelComplete THEN "level_complete"
    ELSE IF pieceIndex \notin 0..(Len(st.pieces) - 1) THEN "invalid_piece"
    ELSE IF st.pieces[pieceIndex + 1].placed THEN "invalid_piece"
    ELSE IF ~Fits(st.grid, ShapeOf(st.pieces[pieceIndex + 1]), row, col) THEN "cannot_place"
    ELSE "none"

C2_PreconditionOrder ==
    \A call \in Calls : \A fresh \in Draws(state, call[1], call[2], call[3]) :
        LET res == handlePiecePlacement(state, call[1], call[2], call[3], fresh)
        IN  /\ res.failReason = ExpectedOutcome(state, call[1], call[2], call[3])
            /\ res.success <=> res.failReason = "none"

\* the latest call named a piece already placed, at an anchor where its
\* shape would not fit either
C2_Witness ==
    /\ Called
    /\ last.failReason = "invalid_piece"
    /\ \E i \in 1..Len(state.pieces) :
           /\ state.pieces[i].placed
           /\ \E row \in Coords : \E col \in Coords :
                  ~Fits(state.grid, ShapeOf(state.pieces[i]), row, col)

(***************************************************************************)
(* C3. Level-complete takes precedence over game-over: no state has both    *)
(* flags, and a turn on which the line target is met while the move limit   *)
(* is reached or no remaining piece fits ends with levelComplete = TRUE and *)
(* gameOver = FALSE.                                                        *)
(***************************************************************************)
TargetMet(st) ==
    st.mode = "level" /\ st.linesCleared >= st.levelData[1].targetLines

MoveLimitReached(st) ==
    st.mode = "level" /\ st.movesMade >= st.levelData[1].targetMoves

UnplacedOf(st) == {i \in 1..Len(st.pieces) : ~st.pieces[i].placed}

NoUnplacedFits(st) ==
    \A i \in UnplacedOf(st) : ~FitsSomewhere(st.grid, ShapeOf(st.pieces[i]))

C3_LevelCompleteWins ==
    /\ ~(state.gameOver /\ state.levelComplete)
    /\ (Called /\ last.success /\ TargetMet(state)
            /\ (MoveLimitReached(state) \/ NoUnplacedFits(state)))
       => (state.levelComplete /\ ~state.gameOver)

\* the target is met on the turn that uses the last move, with a piece left
\* that fits nowhere
C3_Witness ==
    /\ Called /\ last.success
    /\ TargetMet(state) /\ MoveLimitReached(state)
    /\ UnplacedOf(state) # {} /\ NoUnplacedFits(state)
    /\ state.levelComplete

(***************************************************************************)
(* C4. After a successful placement gameOver holds exactly when the level   *)
(* is not complete and (a) a level session has made targetMoves moves or    *)
(* (b) no unplaced piece of the resulting piece set fits at any anchor of   *)
(* the resulting grid.                                                      *)
(***************************************************************************)
C4_GameOverIff ==
    (Called /\ last.success) =>
        (state.gameOver <=>
            /\ ~state.levelComplete
            /\ (MoveLimitReached(state) \/ NoUnplacedFits(state)))

\* game over by (b) alone, on the fresh batch of a refill
C4_Witness ==
    /\ Called /\ last.success
    /\ state.gameOver /\ ~MoveLimitReached(state)
    /\ Cardinality(UnplacedOf(Input)) = 1
    /\ Cardinality(UnplacedOf(state)) = 3

(***************************************************************************)
(* C5. After a successful placement levelComplete holds exactly when the    *)
(* session is a level session and linesCleared, this turn's lines included, *)
(* is at least targetLines; an endless session never has levelComplete.     *)
(***************************************************************************)
C5_LevelCompleteIff ==
    /\ (Called /\ last.success) => (state.levelComplete <=> TargetMet(state))
    /\ state.mode = "endless" => ~state.levelComplete

\* the turn that brings linesCleared from below the target to exactly the target
C5_Witness ==
    /\ Called /\ last.success
    /\ state.levelComplete
    /\ state.linesCleared = state.levelData[1].targetLines
    /\ Input.linesCleared > 0

PutDown ==
    LET piece == Input.pieces[move.pieceIndex + 1]
        cells == Covered(ShapeOf(piece), move.row, move.col)
    IN  [r \in 1..GridSize |-> [c \in 1..GridSize |->
            IF <<r - 1, c - 1>> \in cells THEN piece.color ELSE Input.grid[r][c]]]

OnlyRowZeroFilled(grid) ==
    \A r \in 0..(GridSize - 1) : \A c \in 0..(GridSize - 1) :
        grid[r + 1][c + 1] # Null <=> (r = 0 /\ c \in 0..4)

C7_ClearAndScore ==
    (Called /\ last.success) =>
        LET R == FullRows(PutDown)
            C == FullCols(PutDown)
            nR == Cardinality(R)
            nC == Cardinality(C)
            L == nR + nC
        IN  /\ L = 0 =>
                /\ state.score = Input.score
                /\ state.linesCleared = Input.linesCleared
                /\ state.grid = PutDown
            /\ L > 0 =>
                /\ state.linesCleared = Input.linesCleared + L
                /\ state.score = Input.score
                      + (nR * GridSize + nC * GridSize - nR * nC) * 10 * Min(L, 5)
                /\ \A r \in 0..(GridSize - 1) : \A c \in 0..(GridSize - 1) :
                       (r \in R \/ c \in C) => state.grid[r + 1][c + 1] = Null
            /\ (/\ OnlyRowZeroFilled(Input.grid)
                /\ ShapeOf(Input.pieces[move.pieceIndex + 1]) = << <<TRUE>> >>
                /\ move.row = 0 /\ move.col = 5)
               => state.score = Input.score + 60

\* a turn that completes rows and columns at once, more than five lines in all
C7_Witness ==
    /\ Called /\ last.success
    /\ state.lastClear # <<>>
    /\ Len(state.lastClear[1].rows) > 0
    /\ Len(state.lastClear[1].cols) > 0
    /\ Len(state.lastClear[1].rows) + Len(state.lastClear[1].cols) > 5

\* the turn of the example: the dot at (0, 5) of the grid with only row 0 filled
C7_ExampleReached ==
    /\ Called /\ last.success
    /\ OnlyRowZeroFilled(Input.grid)
    /\ ShapeOf(Input.pieces[move.pieceIndex + 1]) = << <<TRUE>> >>
    /\ move.row = 0 /\ move.col = 5

(***************************************************************************)
(* C8. Terminal states are absorbing: once gameOver or levelComplete holds, *)
(* every later call is rejected and the state never changes again.          *)
(***************************************************************************)
C8_TerminalAbsorbing ==
    [][Terminal(state) => (state' = state /\ ~last'.success /\ Terminal(state'))]_vars

\* a call made on a completed level that still had an unplaced piece that fits
C8_Witness ==
    /\ Called
    /\ Input.levelComplete
    /\ last.failReason = "level_complete"
    /\ \E i \in UnplacedOf(state) : FitsSomewhere(state.grid, ShapeOf(state.pieces[i]))

(***************************************************************************)
(* C9. Tamper evidence: for every level produced by serializeLevel, giving *)
(* another value to any one field other than checksum (version, gridSize,  *)
(* the row, col or colour of a cell, the set of cells, a metadata field,   *)
(* createdAt) while the old checksum is kept makes verifyChecksum return   *)
(* false.                                                                  *)
(***************************************************************************)
C9_TamperEvident ==
    (codec.changed # "none" /\ codec.verified # <<>>) => codec.verified = <<FALSE>>

\* a level whose name was changed after serializeLevel passes verifyChecksum
C9_Witness ==
    /\ codec.changed = "meta.name"
    /\ codec.level # <<>>
    /\ codec.verified = <<TRUE>>

(***************************************************************************)
(* C10. Checksum round trip: for every grid and every metadata record,     *)
(* verifyChecksum(serializeLevel(grid, meta)) is true: the digest computed *)
(* again over all fields except checksum equals the stored one.            *)
(***************************************************************************)
C10_RoundTrip ==
    (codec.changed = "none" /\ codec.verified # <<>>) => codec.verified = <<TRUE>>

\* a serialized level of two cells has been verified as it was produced
C10_Witness ==
    /\ codec.changed = "none"
    /\ codec.level # <<>>
    /\ codec.verified = <<TRUE>>
    /\ Len(codec.level[1].cells) = 2
    /\ Len(codec.level[1].checksum) = 64

(***************************************************************************)
(* C11. The solvability estimate is an upper bound: in every play started   *)
(* from a level's grid the number of lines cleared within targetMoves moves *)
(* never exceeds the maxPossibleLines of checkSolvability for that level,   *)
(* so a level with solvable = FALSE never reaches level-complete.           *)
(***************************************************************************)
C11_EstimateIsUpperBound ==
    state.mode = "level" =>
        LET res == checkSolvability(SerializedOf(state.levelData[1]))
        IN  /\ state.linesCleared <= res.maxPossibleLines
            /\ ~res.solvable => ~state.levelComplete

\* a level reported unsolvable is completed, by one move that clears more
\* lines than the estimate allows
C11_Witness ==
    /\ state.mode = "level"
    /\ state.levelComplete
    /\ state.movesMade = 1
    /\ ~checkSolvability(SerializedOf(state.levelData[1])).solvable
    /\ state.linesCleared > checkSolvability(SerializedOf(state.levelData[1])).maxPossibleLines

(***************************************************************************)
(* C12. checkSolvability decides by this rule, E being the number of empty *)
(* cells and P the number of complete rows plus complete columns of the    *)
(* deserialized grid: when E = 0 the level is solvable exactly when        *)
(* P >= targetLines and maxPossibleLines = P; when E > 0,                  *)
(* maxPossibleLines = P + 2 * targetMoves and the level is solvable        *)
(* exactly when targetLines <= maxPossibleLines.                           *)
(***************************************************************************)

\* the grid a level record describes: a cell holds the colour of the last
\* listed entry at its position, entries outside the grid count for nothing
GridOf(levelData) ==
    [r \in 1..levelData.gridSize |->
        [c \in 1..levelData.gridSize |->
            LET at == {i \in 1..Len(levelData.cells) :
                          /\ levelData.cells[i].row = r - 1
                          /\ levelData.cells[i].col = c - 1}
            IN  IF at = {} THEN Null
                ELSE levelData.cells[CHOOSE i \in at : \A j \in at : j <= i].color]]

EmptyCount(grid) ==
    Cardinality({p \in (1..Len(grid)) \X (1..Len(grid)) : grid[p[1]][p[2]] = Null})

PrefilledLines(grid) == Cardinality(FullRows(grid)) + Cardinality(FullCols(grid))

SolvabilityProbed == probe.op = "checkSolvability"

C12_DecisionRule ==
    SolvabilityProbed =>
        LET grid == GridOf(probe.level)
            E == EmptyCount(grid)
            P == PrefilledLines(grid)
            targetLines == probe.level.meta.targetLines
            targetMoves == probe.level.meta.targetMoves
        IN  IF E = 0
            THEN /\ probe.result.solvable <=> P >= targetLines
                 /\ probe.result.maxPossibleLines = P
            ELSE /\ probe.result.maxPossibleLines = P + 2 * targetMoves
                 /\ probe.result.solvable <=> targetLines <= P + 2 * targetMoves

\* a level with empty cells whose target exceeds the estimate has been judged
C12_Witness ==
    /\ SolvabilityProbed
    /\ EmptyCount(GridOf(probe.level)) = 1
    /\ PrefilledLines(GridOf(probe.level)) = 10
    /\ probe.level.meta.targetLines = 13
    /\ probe.level.meta.targetMoves = 1
    /\ ~probe.result.solvable
    /\ probe.result.maxPossibleLines = 12

\* a full grid that already holds the target has been judged
C12_FullWitness ==
    /\ SolvabilityProbed
    /\ probe.level.gridSize = GridSize
    /\ EmptyCount(GridOf(probe.level)) = 0
    /\ probe.level.meta.targetLines = 12
    /\ probe.result.solvable
    /\ probe.result.maxPossibleLines = 12

(***************************************************************************)
(* C13. A level whose grid has no empty cell and no complete row or column *)
(* and whose targetLines is above 0 is reported solvable = FALSE.          *)
(***************************************************************************)
C13_FullGridWithoutLines ==
    (/\ SolvabilityProbed
     /\ EmptyCount(GridOf(probe.level)) = 0
     /\ PrefilledLines(GridOf(probe.level)) = 0
     /\ probe.level.meta.targetLines > 0)
        => ~probe.result.solvable

\* such a level has been judged: its grid has no cell at all
C13_Witness ==
    /\ SolvabilityProbed
    /\ EmptyCount(GridOf(probe.level)) = 0
    /\ PrefilledLines(GridOf(probe.level)) = 0
    /\ probe.level.meta.targetLines > 0
    /\ ~probe.result.solvable

\* no level of a dimension above 0 is such a level: a grid of dimension d > 0
\* without an empty cell has 2 * d complete lines
C13_OnlyWithoutCells ==
    (/\ SolvabilityProbed
     /\ EmptyCount(GridOf(probe.level)) = 0
     /\ PrefilledLines(GridOf(probe.level)) = 0)
        => probe.level.gridSize = 0

(***************************************************************************)
(* C14. validateLevel reports every rule a level breaks, whatever else the *)
(* level breaks: the codes of its error list are the codes of the rules    *)
(* broken by the version, by the dimension, by the cells and by the        *)
(* metadata, each judged from its own field; valid is FALSE exactly when   *)
(* the error list is non-empty, whatever the warnings.                     *)
(***************************************************************************)

Codes(errors) == {errors[i] : i \in 1..Len(errors)}

\* the code of a rule, when the rule is broken
When(broken, code) == IF broken THEN {code} ELSE {}

\* a whole number of the range low..high
WholeNumber(x, low, high) == x.kind = "int" /\ low <= x.v /\ x.v <= high

\* a whole number, of any size
Whole(x) == x.kind = "int"

BrokenByVersion(version) ==
    When(version.kind = "null" \/ version.v < 1, "INVALID_VERSION")

BrokenBySize(gridSize) == When(gridSize \notin {6, 8, 10}, "INVALID_GRID_SIZE")

BrokenByCell(cell, gridSize) ==
    When(~Whole(cell.row), "INVALID_CELL_ROW")
    \cup When(Whole(cell.row) /\ ~WholeNumber(cell.row, 0, gridSize - 1),
              "CELL_ROW_OUT_OF_BOUNDS")
    \cup When(~Whole(cell.col), "INVALID_CELL_COL")
    \cup When(Whole(cell.col) /\ ~WholeNumber(cell.col, 0, gridSize - 1),
              "CELL_COL_OUT_OF_BOUNDS")
    \cup When(cell.color \notin {"red", "blue", "green", "yellow", "purple", "orange",
                                 "cyan", "pink"},
              "INVALID_CELL_COLOR")

BrokenByCells(cells, gridSize) ==
    IF ~cells.isArray THEN {"INVALID_CELLS"}
    ELSE UNION {BrokenByCell(cells.items[i], gridSize) : i \in 1..Len(cells.items)}
         \cup When(\E i, j \in 1..Len(cells.items) :
                       /\ i < j
                       /\ cells.items[i].row = cells.items[j].row
                       /\ cells.items[i].col = cells.items[j].col,
                   "DUPLICATE_CELL")

\* the names and identifiers submitted hold no white space but the space
BrokenByMeta(meta) ==
    IF meta = <<>> THEN {"MISSING_META"}
    ELSE LET mt == meta[1]
             name == CodeUnits[mt.name]
             creatorId == CodeUnits[mt.creatorId]
             blank == \A i \in 1..Len(name) : name[i] = 32
         IN  When(blank, "MISSING_NAME")
             \cup When(~blank /\ Len(name) > 64, "NAME_TOO_LONG")
             \cup When(\A i \in 1..Len(creatorId) : creatorId[i] = 32, "MISSING_CREATOR_ID")
             \cup When(~Whole(mt.targetLines), "INVALID_TARGET_LINES")
             \cup When(Whole(mt.targetLines) /\ mt.targetLines.v < 1, "TARGET_LINES_TOO_LOW")
             \cup When(~Whole(mt.targetMoves), "INVALID_TARGET_MOVES")
             \cup When(Whole(mt.targetMoves) /\ mt.targetMoves.v < 1, "TARGET_MOVES_TOO_LOW")
             \cup When(Whole(mt.targetMoves) /\ mt.targetMoves.v > 999,
                       "TARGET_MOVES_TOO_HIGH")
             \cup When(mt.targetScore.kind = "null", "INVALID_TARGET_SCORE")
             \cup When(mt.targetScore.kind # "null" /\ mt.targetScore.v < 0,
                       "TARGET_SCORE_NEGATIVE")
             \cup When(mt.difficulty \notin {"easy", "medium", "hard", "expert"},
                       "INVALID_DIFFICULTY")
             \cup When(mt.description # <<>> /\ mt.description[1] > 256,
                       "DESCRIPTION_TOO_LONG")

ValidateProbed == probe.op = "validateLevel"

C14_WarningsWitness ==
    /\ ValidateProbed
    /\ probe.result.warnings = <<"very_full", "target_lines_high", "moves_below_lines">>
    /\ probe.result.errors = <<>>
    /\ probe.result.valid

(***************************************************************************)
(* C15. The backend accepts a created level (createLevelSchema, then       *)
(* validateLevelData) exactly when validateLevel reports it valid.         *)
(***************************************************************************)

CreateProbed == probe.op = "createLevel"

C15_BackendMatchesCore ==
    CreateProbed => (probe.result.accepted <=> validateLevel(probe.level).valid)

\* a level that validateLevel finds valid, with a name of 31 characters, has
\* been sent to the backend and refused
C15_Witness ==
    /\ CreateProbed
    /\ probe.level = [version  |-> JSInt(1),
                      gridSize |-> 6,
                      cells    |-> [isArray |-> TRUE,
                                    items |-> <<SubmittedCell(JSInt(0), JSInt(0), "red"),
                                                SubmittedCell(JSInt(1), JSInt(2), "blue")>>],
                      meta     |-> <<[PassingMeta EXCEPT
                                         !.name = "Level name of 31 characters xxx"]>>]
    /\ validateLevel(probe.level).valid
    /\ ~probe.result.accepted

\* a level whose name is three spaces, which validateLevel refuses with
\* MISSING_NAME, has been sent to the backend and accepted
C15_BlankNameAccepted ==
    /\ CreateProbed
    /\ probe.level.meta[1].name = "   "
    /\ validateLevel(probe.level).errors = <<"MISSING_NAME">>
    /\ probe.result.accepted

\* a level both accept has been sent
C15_BothAccept == CreateProbed /\ probe.result.accepted /\ validateLevel(probe.level).valid

(***************************************************************************)
(* C16. canPlacePiece(grid, shape, row, col) is TRUE exactly when the      *)
(* bounding box of the shape lies inside the grid at the anchor (row >= 0, *)
(* col >= 0, row + height <= size, col + width <= size) and every occupied *)
(* cell of the shape falls on an empty cell; so on an empty grid every     *)
(* catalog shape can be placed at every anchor that keeps its box inside.  *)
(***************************************************************************)

BoxInside(grid, shape, row, col) ==
    /\ row >= 0
    /\ col >= 0
    /\ row + Len(shape) <= Len(grid)
    /\ col + Len(shape[1]) <= Len(grid)

AllEmpty(grid) == \A r, c \in 1..Len(grid) : grid[r][c] = Null

PlaceProbed == probe.op = "canPlacePiece"

C16_PlaceableIffBoxInsideAndFree ==
    PlaceProbed =>
        /\ probe.result <=>
               /\ BoxInside(probe.grid, probe.shape, probe.row, probe.col)
               /\ \A p \in Covered(probe.shape, probe.row, probe.col) :
                      probe.grid[p[1] + 1][p[2] + 1] = Null
        /\ (AllEmpty(probe.grid) /\ BoxInside(probe.grid, probe.shape, probe.row, probe.col))
               => probe.result

\* the 3 x 3 square has been tried, and found placeable, at the last anchor
\* that keeps it inside a grid whose only free cells are those it covers
C16_Witness ==
    /\ PlaceProbed
    /\ probe.shape = SHAPE_3x3
    /\ probe.row = 0 /\ probe.col = 0
    /\ EmptyCount(probe.grid) = 9
    /\ Len(probe.grid) = GridSize
    /\ probe.result

\* a shape has been tried on an empty grid at the last anchor of the last row
\* and column that keeps its box inside
C16_EmptyGridWitness ==
    /\ PlaceProbed
    /\ Len(probe.grid) = LargeGridSize
    /\ AllEmpty(probe.grid)
    /\ probe.row + Len(probe.shape) = LargeGridSize
    /\ probe.col + Len(probe.shape[1]) = LargeGridSize
    /\ probe.result

(***************************************************************************)
(* C17. canAnyPieceFit(grid, pieces) is TRUE exactly when some piece of    *)
(* the list can be placed by canPlacePiece at some anchor; no anchor       *)
(* outside rows 0..size-height and columns 0..size-width is one where      *)
(* canPlacePiece is TRUE.                                                  *)
(***************************************************************************)

FitProbed == probe.op = "canAnyPieceFit"

\* anchors well beyond those the search visits
WideAnchors(grid) == (-2)..(Len(grid) + 1)

C17_FitsIffSomePlacement ==
    FitProbed =>
        (probe.result <=>
            \E i \in 1..Len(probe.pieces) : \E row, col \in WideAnchors(probe.grid) :
                canPlacePiece(probe.grid, probe.pieces[i].shape, row, col))

\* a list whose first piece fits nowhere and whose second fits at one anchor
\* only, the last of its row range, has been searched
C17_Witness ==
    /\ FitProbed
    /\ Len(probe.pieces) = 2
    /\ EmptyCount(probe.grid) = 1
    /\ probe.grid[1][GridSize] = Null
    /\ ~FitsSomewhere(probe.grid, probe.pieces[1].shape)
    /\ canPlacePiece(probe.grid, probe.pieces[2].shape, 0, GridSize - 1)
    /\ probe.result

(***************************************************************************)
(* C18. clearLines(grid, rows, cols) returns a grid in which a cell is     *)
(* empty if its row or its column is listed and otherwise holds what it    *)
(* held; clearing the result again with the same lists changes nothing,    *)
(* and clearing rows and columns that are already empty returns a grid     *)
(* equal to the one given.                                                 *)
(***************************************************************************)

ClearProbed == probe.op = "clearLines"

Listed(indexes) == {indexes[i] : i \in 1..Len(indexes)}

C18_ClearsListedLinesOnly ==
    ClearProbed =>
        LET size == Len(probe.grid)
            R == Listed(probe.rows)
            C == Listed(probe.cols)
        IN  /\ Len(probe.result) = size
            /\ \A r, c \in 0..(size - 1) :
                   probe.result[r + 1][c + 1]
                       = IF r \in R \/ c \in C THEN Null ELSE probe.grid[r + 1][c + 1]
            /\ clearLines(probe.result, probe.rows, probe.cols) = probe.result
            /\ (\A r, c \in 0..(size - 1) :
                    (r \in R \/ c \in C) => probe.grid[r + 1][c + 1] = Null)
                   => probe.result = probe.grid

\* three complete rows and the three complete columns that cross them have
\* been cleared
C18_Witness ==
    /\ ClearProbed
    /\ probe.rows = <<3, 4, 5>>
    /\ probe.cols = <<3, 4, 5>>
    /\ FullRows(probe.grid) = {3, 4, 5}
    /\ FullCols(probe.grid) = {3, 4, 5}
    /\ EmptyCount(probe.grid) = 9
    /\ AllEmpty(probe.result)
    /\ probe.result # probe.grid

\* rows that were already empty have been cleared in a grid that holds cells
C18_NoOpWitness ==
    /\ ClearProbed
    /\ probe.rows = <<1, 3>>
    /\ probe.cols = <<>>
    /\ ~AllEmpty(probe.grid)
    /\ probe.result = probe.grid

(***************************************************************************)
(* C19. findCompletedLines(grid) returns exactly the complete lines: r is  *)
(* in rows exactly when no cell of row r is empty, c is in cols exactly    *)
(* when no cell of column c is empty, each listed once, in increasing      *)
(* order.                                                                  *)
(***************************************************************************)

FindProbed == probe.op = "findCompletedLines"

Increasing(indexes) == \A i, j \in 1..Len(indexes) : i < j => indexes[i] < indexes[j]

C19_ExactlyTheCompleteLines ==
    FindProbed =>
        /\ Listed(probe.result.rows) = FullRows(probe.grid)
        /\ Listed(probe.result.cols) = FullCols(probe.grid)
        /\ Increasing(probe.result.rows)
        /\ Increasing(probe.result.cols)

\* a grid with three complete rows, three complete columns and cells that
\* are empty has been scanned
C19_Witness ==
    /\ FindProbed
    /\ EmptyCount(probe.grid) = 9
    /\ probe.result = [rows |-> <<3, 4, 5>>, cols |-> <<3, 4, 5>>]

(***************************************************************************)
(* C20. For lists R of rows and C of columns without repeated index, on a  *)
(* grid of dimension d, countClearedCells returns                          *)
(* |R| * d + |C| * d - |R| * |C|, the number of distinct cells in a listed *)
(* row or column; for d = 8, R = [0], C = [0] it returns 15.               *)
(***************************************************************************)

CountProbed == probe.op = "countClearedCells"

DuplicateFree(indexes) ==
    \A i, j \in 1..Len(indexes) : i # j => indexes[i] # indexes[j]

CellsInListedLines(size, rows, cols) ==
    {p \in (0..(size - 1)) \X (0..(size - 1)) : p[1] \in Listed(rows) \/ p[2] \in Listed(cols)}

C20_CountsDistinctCells ==
    (/\ CountProbed
     /\ DuplicateFree(probe.rows)
     /\ DuplicateFree(probe.cols))
        => LET d == Len(probe.grid)
           IN  /\ probe.result
                      = Len(probe.rows) * d + Len(probe.cols) * d
                            - Len(probe.rows) * Len(probe.cols)
               /\ probe.result
                      = Cardinality(CellsInListedLines(d, probe.rows, probe.cols))
               /\ (d = 8 /\ probe.rows = <<0>> /\ probe.cols = <<0>>) => probe.result = 15

\* the example has been computed
C20_Witness ==
    /\ CountProbed
    /\ Len(probe.grid) = 8
    /\ probe.rows = <<0>>
    /\ probe.cols = <<0>>
    /\ probe.result = 15

\* two rows and two columns have been counted: four cells lie on both
C20_CrossingWitness ==
    /\ CountProbed
    /\ probe.rows = <<0, 1>>
    /\ probe.cols = <<1, 3>>
    /\ Len(probe.grid) = GridSize
    /\ probe.result = 20

(***************************************************************************)
(* C21. A square grid of dimension 6, 8 or 10 whose cells are empty or a   *)
(* palette colour goes through the codec unchanged: the record lists       *)
(* exactly one sparse entry for each non-empty cell, and deserializing it  *)
(* returns a grid equal cell for cell, the same dimension and the same     *)
(* metadata.                                                               *)
(***************************************************************************)

RoundTripProbed == probe.op = "roundTrip"

EntriesAt(cells, r, c) == {i \in 1..Len(cells) : cells[i].row = r /\ cells[i].col = c}

C21_GridRoundTrip ==
    RoundTripProbed =>
        LET g == probe.grid
            d == Len(g)
            cells == probe.level.cells
        IN  /\ \A r, c \in 0..(d - 1) :
                   IF g[r + 1][c + 1] = Null
                   THEN EntriesAt(cells, r, c) = {}
                   ELSE /\ Cardinality(EntriesAt(cells, r, c)) = 1
                        /\ \A i \in EntriesAt(cells, r, c) : cells[i].color = g[r + 1][c + 1]
            /\ \A i \in 1..Len(cells) :
                   cells[i].row \in 0..(d - 1) /\ cells[i].col \in 0..(d - 1)
            /\ probe.result.grid = g
            /\ probe.result.gridSize = d
            /\ probe.result.meta = probe.meta

\* a grid of dimension 10 that holds every colour of the palette, one of
\* them in its last column, has gone through the codec
C21_Witness ==
    /\ RoundTripProbed
    /\ Len(probe.grid) = 10
    /\ {probe.grid[1][c] : c \in 1..10} = VALID_COLORS \cup {Null}
    /\ probe.grid[1][10] # Null
    /\ Len(probe.level.cells) = 8
    /\ probe.result.grid = probe.grid

(***************************************************************************)
(* C22. The digest routine gives the standard test vectors, as 64          *)
(* lowercase hexadecimal digits: for the empty string                      *)
(* e3b0c44298fc1c149afbf4c8996fb92427ae41e4649b934ca495991b7852b855, for   *)
(* "abc" ba7816bf8f01cfea414140de5dae2223b00361a396177a9cb410ff61f20015ad. *)
(***************************************************************************)

DigestProbed == probe.op = "sha256Simple"

\* the character codes of the two digests
EmptyStringDigest ==
    <<101, 51, 98, 48, 99, 52, 52, 50, 57, 56, 102, 99, 49, 99, 49, 52, 57,
      97, 102, 98, 102, 52, 99, 56, 57, 57, 54, 102, 98, 57, 50, 52, 50,
      55, 97, 101, 52, 49, 101, 52, 54, 52, 57, 98, 57, 51, 52, 99, 97, 52,
      57, 53, 57, 57, 49, 98, 55, 56, 53, 50, 98, 56, 53, 53>>

AbcDigest ==
    <<98, 97, 55, 56, 49, 54, 98, 102, 56, 102, 48, 49, 99, 102, 101, 97,
      52, 49, 52, 49, 52, 48, 100, 101, 53, 100, 97, 101, 50, 50, 50, 51,
      98, 48, 48, 51, 54, 49, 97, 51, 57, 54, 49, 55, 55, 97, 57, 99, 98,
      52, 49, 48, 102, 102, 54, 49, 102, 50, 48, 48, 49, 53, 97, 100>>

\* the digest of the empty string as the specification prints it: 63 digits
PrintedEmptyStringDigest ==
    <<101, 51, 98, 48, 99, 52, 52, 50, 57, 56, 102, 99, 49, 99, 49, 52, 57,
      97, 102, 98, 102, 52, 99, 56, 57, 57, 54, 102, 98, 57, 50, 52, 50,
      55, 97, 101, 52, 49, 101, 52, 54, 52, 57, 98, 57, 51, 52, 99, 97, 52,
      57, 53, 57, 57, 49, 98, 55, 56, 53, 50, 98, 56, 53>>

LowerHexUnits == (48..57) \cup (97..102)

C22_TestVectors ==
    DigestProbed =>
        /\ Len(probe.result) = 64
        /\ \A i \in 1..64 : probe.result[i] \in LowerHexUnits
        /\ probe.message = <<>> => probe.result = EmptyStringDigest
        /\ probe.message = <<97, 98, 99>> => probe.result = AbcDigest

\* the statement with the digest of the empty string as printed
C22_PrintedVectors ==
    DigestProbed =>
        /\ probe.message = <<>> => probe.result = PrintedEmptyStringDigest
        /\ probe.message = <<97, 98, 99>> => probe.result = AbcDigest

\* the empty string has been digested
C22_Witness == DigestProbed /\ probe.message = <<>> /\ probe.result = EmptyStringDigest

\* "abc" has been digested
C22_AbcWitness == DigestProbed /\ probe.message = <<97, 98, 99>> /\ probe.result = AbcDigest

(***************************************************************************)
(* C30. The padding of a message of n bytes: the padded length is the      *)
(* smallest multiple of 64 that is at least n + 9; byte n is 0x80; the     *)
(* bytes after it up to the last eight are zero; the last eight bytes hold *)
(* the bit length 8 * n as a 64-bit big-endian integer.                    *)
(***************************************************************************)

PadProbed == probe.op = "pad"

\* the last eight bytes of a padded message read as a big-endian integer
\* equal v, for v below 2^31
EndsWithLength(padded, v) ==
    LET at == Len(padded) - 8
    IN  /\ \A k \in 1..4 : padded[at + k] = 0
        /\ padded[at + 5] < 128
        /\ padded[at + 5] * 16777216 + padded[at + 6] * 65536
               + padded[at + 7] * 256 + padded[at + 8] = v

C30_Padding ==
    PadProbed =>
        LET n == Len(probe.message)
            padded == probe.result
            total == Len(padded)
        IN  /\ total % 64 = 0
            /\ total >= n + 9
            /\ total - 64 < n + 9
            /\ padded[n + 1] = 128
            /\ \A i \in (n + 2)..(total - 8) : padded[i] = 0
            /\ EndsWithLength(padded, 8 * n)

\* a message of 55 bytes, which with 0x80 and the length fills one block
\* exactly, has been padded to 64 bytes
C30_Witness ==
    /\ PadProbed
    /\ Len(probe.message) = 55
    /\ Len(probe.result) = 64
    /\ probe.result[56] = 128
    /\ probe.result[63] = 1 /\ probe.result[64] = 184

\* a message of 56 bytes, which leaves no room for the length in its block,
\* has been padded to 128 bytes
C30_SecondBlockWitness ==
    /\ PadProbed
    /\ Len(probe.message) = 56
    /\ Len(probe.result) = 128
    /\ \A i \in 58..120 : probe.result[i] = 0

(***************************************************************************)
(* C23. calculateStarRating(score, targetScore) is 3 whenever              *)
(* targetScore <= 0; otherwise 3 if score >= targetScore, else 2 if        *)
(* 4 * score >= 3 * targetScore, else 1 if 2 * score >= targetScore, else  *)
(* 0: with a target above 0, one star for each of the thresholds 50%, 75%  *)
(* and 100% the score reaches. So (0, 0) gives 3 and (50, 100) gives 1.    *)
(***************************************************************************)

StarsProbed == probe.op = "calculateStarRating"

\* the thresholds, in quarters of the target, that a score reaches
ThresholdsReached(score, targetScore) == {q \in {2, 3, 4} : 4 * score >= q * targetScore}

C23_StarRating ==
    StarsProbed =>
        LET score == probe.score
            targetScore == probe.targetScore
        IN  /\ targetScore <= 0 => probe.result = 3
            /\ targetScore > 0 =>
                   /\ probe.result = Cardinality(ThresholdsReached(score, targetScore))
                   /\ probe.result = 3 <=> score >= targetScore
                   /\ probe.result = 2 <=>
                          score < targetScore /\ 4 * score >= 3 * targetScore
                   /\ probe.result = 1 <=>
                          4 * score < 3 * targetScore /\ 2 * score >= targetScore
                   /\ probe.result = 0 <=> 2 * score < targetScore
            /\ (score = 0 /\ targetScore = 0) => probe.result = 3
            /\ (score = 50 /\ targetScore = 100) => probe.result = 1

\* the second example has been rated
C23_Witness == StarsProbed /\ probe.score = 50 /\ probe.targetScore = 100 /\ probe.result = 1

\* the first example has been rated
C23_TrivialTargetWitness ==
    StarsProbed /\ probe.score = 0 /\ probe.targetScore = 0 /\ probe.result = 3

\* a score of exactly 75% of the target has been rated
C23_ThreeQuartersWitness ==
    StarsProbed /\ probe.score = 75 /\ probe.targetScore = 100 /\ probe.result = 2

(***************************************************************************)
(* C24. No stuck session: in every state reached from createGameState     *)
(* through calls of handlePiecePlacement, if gameOver and levelComplete    *)
(* are both FALSE then some unplaced piece can be placed somewhere on the  *)
(* grid, so some call is accepted.                                         *)
(***************************************************************************)
C24_NoStuckSession == ~Terminal(state) => ~NoUnplacedFits(state)

\* a level session whose grid has one free cell and whose three pieces are
\* 3 x 3 squares: a call has been made and refused with cannot_place, no
\* piece fits anywhere, and the state is still not terminal
C24_Witness ==
    /\ Called
    /\ ~last.success
    /\ last.failReason = "cannot_place"
    /\ state = Input
    /\ state.mode = "level"
    /\ state.movesMade = 0
    /\ EmptyCount(state.grid) = 1
    /\ NoUnplacedFits(state)
    /\ ~state.gameOver
    /\ ~state.levelComplete

\* once a placement has been accepted the session is never stuck: the
\* stuck states are those createGameState returns
C24_StuckOnlyFromStart ==
    (~Terminal(state) /\ NoUnplacedFits(state)) => state.movesMade = 0

(***************************************************************************)
(* C25. Bounded level sessions: in level mode with targetMoves >= 1,       *)
(* movesMade grows by exactly 1 on each accepted call and by 0 on each     *)
(* rejected one, never exceeds targetMoves, and the state is terminal no   *)
(* later than after the targetMoves-th accepted call.                      *)
(***************************************************************************)
C25_BoundedLevelSession ==
    (state.mode = "level" /\ state.levelData[1].targetMoves >= 1) =>
        /\ Called => state.movesMade = Input.movesMade + (IF last.success THEN 1 ELSE 0)
        /\ state.movesMade <= state.levelData[1].targetMoves
        /\ state.movesMade >= state.levelData[1].targetMoves => Terminal(state)

\* a level of two moves has had its second piece put down without reaching
\* its target, and the session has ended there although a piece still fits
C25_Witness ==
    /\ state.mode = "level"
    /\ state.levelData[1].targetMoves = 2
    /\ Called /\ last.success
    /\ Input.movesMade = 1
    /\ state.movesMade = 2
    /\ ~state.levelComplete
    /\ ~NoUnplacedFits(state)
    /\ state.gameOver

\* a call has been refused in a level session that had already used a move
C25_RejectionWitness ==
    /\ state.mode = "level"
    /\ Called /\ ~last.success
    /\ state.movesMade = 1
    /\ Input.movesMade = 1

(***************************************************************************)
(* C26. After every accepted placement the grid holds no complete row and  *)
(* no complete column, whatever the grid was before, a level grid that     *)
(* started with complete lines included.                                   *)
(***************************************************************************)
C26_NoCompleteLineLeft ==
    (Called /\ last.success) => FullRows(state.grid) = {} /\ FullCols(state.grid) = {}

\* a piece has been put down on a level grid that held complete rows and
\* columns from the start, completing none itself, and none is left
C26_Witness ==
    /\ Called /\ last.success
    /\ FullRows(Input.grid) = {3, 4, 5}
    /\ FullCols(Input.grid) = {3, 4, 5}
    /\ PutDown[1][1] # Null
    /\ EmptyCount(PutDown) = 8
    /\ FullRows(state.grid) = {}
    /\ FullCols(state.grid) = {}
    /\ state.linesCleared = 6

(***************************************************************************)
(* C27. The two reducers' combo values are not equivalent. For the same    *)
(* grid, pieces and placement, handlePiecePlacement derives the combo      *)
(* level from the lines cleared on this turn only (1 when none is cleared, *)
(* else the number of lines, at most 5), with no memory of earlier turns;  *)
(* placePiece of the store keeps a streak: the combo it had plus 1 when    *)
(* the placement clears a line, 0 when it clears none.                     *)
(***************************************************************************)
\* the latest call of placePiece put a piece down
StorePlaced == last.op = "placePiece" /\ last.args # NoMove

\* the store the latest call of placePiece found
StoreInput == last.input[1]

\* the grid that call found, with its piece put down
StorePutDown ==
    LET piece == StoreInput.currentPieces[last.args.pieceIndex + 1]
        cells == Covered(ShapeOf(piece), last.args.row, last.args.col)
    IN  [r \in 1..Len(StoreInput.grid) |-> [c \in 1..Len(StoreInput.grid) |->
            IF <<r - 1, c - 1>> \in cells THEN piece.color ELSE StoreInput.grid[r][c]]]

\* the lines that placement completed
StoreLinesThisTurn ==
    Cardinality(FullRows(StorePutDown)) + Cardinality(FullCols(StorePutDown))

\* a running game of the engine with the grid and the pieces that call found
EngineInput ==
    [grid          |-> StoreInput.grid,
     gridSize      |-> StoreInput.gridSize,
     pieces        |-> [i \in 1..Len(StoreInput.currentPieces) |->
                           [definition |-> StoreInput.currentPieces[i].definition,
                            color      |-> StoreInput.currentPieces[i].color,
                            placed     |-> StoreInput.currentPieces[i].isPlaced]],
     score         |-> StoreInput.score,
     linesCleared  |-> StoreInput.linesCleared,
     movesMade     |-> 0,
     bestCombo     |-> 0,
     mode          |-> "endless",
     levelData     |-> <<>>,
     gameOver      |-> FALSE,
     levelComplete |-> FALSE,
     starRating    |-> 0,
     lastClear     |-> <<>>]

\* the combo level handlePiecePlacement computes for the same placement: its
\* state starts with bestCombo 0 and keeps the larger of the two
EngineCombo ==
    handlePiecePlacement(EngineInput, last.args.pieceIndex, last.args.row,
                         last.args.col, NoDraw).state.bestCombo

C27_CombosNotEquivalent ==
    StorePlaced =>
        /\ EngineCombo = IF StoreLinesThisTurn = 0 THEN 1 ELSE Min(StoreLinesThisTurn, 5)
        /\ store.combo = IF StoreLinesThisTurn > 0 THEN StoreInput.combo + 1 ELSE 0

\* a second clearing placement in a row, of one line: the store counts a
\* streak of 2 where the engine computes 1
C27_Witness ==
    /\ StorePlaced
    /\ StoreLinesThisTurn = 1
    /\ StoreInput.combo = 1
    /\ store.combo = 2
    /\ EngineCombo = 1

\* a placement that clears nothing: 0 in the store, 1 in the engine
C27_NoClearWitness ==
    /\ StorePlaced
    /\ StoreLinesThisTurn = 0
    /\ store.combo = 0
    /\ EngineCombo = 1

\* a first clearing placement of one line: the two values agree
C27_AgreeWitness ==
    /\ StorePlaced
    /\ StoreLinesThisTurn = 1
    /\ store.combo = 1
    /\ EngineCombo = 1

(***************************************************************************)
(* C28. In the game store, once isGameOver or isLevelComplete is true,     *)
(* placePiece changes nothing: grid, currentPieces, score, combo,          *)
(* movesLeft, linesCleared and both flags stay as they are until initGame, *)
(* resetGame or continueAfterGameOver is called.                           *)
(***************************************************************************)
StoreTerminal(st) == st.isGameOver \/ st.isLevelComplete

C28_PlacePieceInertWhenOver ==
    (last.op = "placePiece" /\ StoreTerminal(StoreInput)) =>
        /\ store.grid = StoreInput.grid
        /\ store.currentPieces = StoreInput.currentPieces
        /\ store.score = StoreInput.score
        /\ store.combo = StoreInput.combo
        /\ store.movesLeft = StoreInput.movesLeft
        /\ store.linesCleared = StoreInput.linesCleared
        /\ store.isGameOver = StoreInput.isGameOver
        /\ store.isLevelComplete = StoreInput.isLevelComplete

\* a piece put down on a completed level: the grid and the pieces change,
\* the combo falls back to 0
C28_Witness ==
    /\ StorePlaced
    /\ StoreInput.isLevelComplete
    /\ StoreInput.combo = 1
    /\ store.grid # StoreInput.grid
    /\ store.currentPieces # StoreInput.currentPieces
    /\ store.combo = 0
    /\ store.isLevelComplete

\* a piece put down after the last move was used up: the game is over and
\* the grid changes all the same
C28_OutOfMovesWitness ==
    /\ StorePlaced
    /\ StoreInput.isGameOver
    /\ StoreInput.movesLeft = <<0>>
    /\ store.grid # StoreInput.grid
    /\ store.isGameOver

\* the two early returns are the only calls of placePiece that leave the
\* store as it was
C28_InertOnlyOnEarlyReturn ==
    last.op = "placePiece" =>
        (store = StoreInput <=> last.args = NoMove)

(***************************************************************************)
(* C29. The daily reward requires 24 hours between claims: for each user,  *)
(* any two daily_login reward records created by successful claim requests *)
(* are at least 24 hours apart, also when two requests of the same user    *)
(* are handled concurrently.                                               *)
(***************************************************************************)
\* the daily_login rows of a user
DailyClaims(userId) ==
    {i \in 1..Len(db.rewards) :
        db.rewards[i].userId = userId /\ db.rewards[i].type = "daily_login"}

C29_ClaimsADayApart ==
    \A userId \in UserIds : \A i, j \in DailyClaims(userId) :
        i < j => db.rewards[j].createdAt - db.rewards[i].createdAt >= twentyFourHours

\* two requests of one user answered 200 for rows created at the same hour,
\* and the coins credited twice
C29_Witness ==
    /\ \A r \in Requests : requests[r].pc = "done" /\ requests[r].status = 200
    /\ requests[1].userId = requests[2].userId
    /\ requests[1].reward # requests[2].reward
    /\ requests[1].reward[1].createdAt = requests[2].reward[1].createdAt
    /\ \E userId \in UserIds :
           /\ Cardinality(DailyClaims(userId)) = 2
           /\ db.users[userId].coins = INITIAL_COINS + 2 * DAILY_REWARD_COINS

\* every row was inserted by a request that read a last claim at least 24
\* hours old, or none: the check itself is sound
C29_CheckedBeforeInsert ==
    \A r \in Requests :
        requests[r].pc \in {"insertReward", "updateCoins"} =>
            \/ requests[r].lastClaim = <<>>
            \/ clock - requests[r].lastClaim[1] >= twentyFourHours

\* a second claim 24 hours after the first is granted
C29_NextDayWitness ==
    \E userId \in UserIds : \E i, j \in DailyClaims(userId) :
        db.rewards[j].createdAt - db.rewards[i].createdAt = twentyFourHours

\* a claim made 12 hours after the first, when no other request is under
\* way, is refused
C29_RefusedWitness ==
    \E r \in Requests :
        /\ requests[r].pc = "done"
        /\ requests[r].status = 429
        /\ requests[r].lastClaim = <<0>>
        /\ clock = HoursPerTick
        /\ Len(db.rewards) = 1
====
